---- MODULE Spec2Model ----
(***************************************************************************)
(* MarketBridge: the 4-agent collaboration engine of                       *)
(* backend/agents/enhanced_agent_manager.py and the executive decision     *)
(* function of backend/agents/lead_agent.py.                               *)
(*                                                                         *)
(* Units.  Python floats are modelled by scaled integers:                  *)
(*   confidence_level, risk_score, decision_confidence : hundredths        *)
(*   projected_roi                                     : whole percent     *)
(*   projected_revenue, approved_budget                : dollars           *)
(*   sub-scores (financial, creative, operational)     : 1/10^7            *)
(*   overall viability score                           : 1/10^8            *)
(* Python dicts are TLA+ records (functions on strings); d.get(k, default) *)
(* is Get(d, k, default).  Python's None is the record None.  Dict objects *)
(* live in `heap` and are referred to by their index, because the workers' *)
(* negotiate_with_agents mutate the dict they are given and return it.     *)
(* Timestamps and uuid-derived identifiers are left out of the dicts.      *)
(***************************************************************************)
EXTENDS Integers, Sequences, FiniteSets, TLC

VARIABLES
    pc,                 \* position of run_collaborative_campaign_analysis
    idx,                \* index into team_agent_names of the agent being processed
    agents_initialized, \* EnhancedAgentManager._agents_initialized
    agents_mode,        \* what self.agents holds: "none", "workers" or "fallback_agents"
    lead_agent,         \* TRUE iff self.lead_agent is not None
    negotiation_round,  \* AgentCollaborationContext.negotiation_round
    agent_proposals,    \* AgentCollaborationContext.agent_proposals: name -> heap index
    shared_insights,    \* AgentCollaborationContext.shared_insights
    collaboration_log,  \* AgentCollaborationContext.collaboration_log
    lead_decision,      \* AgentCollaborationContext.lead_decision: heap index, 0 = None
    heap,               \* the dict objects created so far
    campaign_data,      \* AgentCollaborationContext.campaign_data: query and product
    result,             \* what the run returns (None until it is built)
    save_calls,         \* number of _save_comprehensive_results invocations
    calls,              \* observation: the worker and save calls made, their arguments and
                        \* whether they returned or raised
    round_start,        \* observation: the proposal values at the start of each round
    convergence_results,\* observation: what _check_team_convergence returned, per round
    decision_writes,    \* observation: number of set_lead_decision calls
    decision_input,     \* arguments of a direct call of a lead-agent function
    decision_output,    \* what that call returned
    replay,             \* "replay": the workers are deterministic and do what
                        \* `script` says; "off": they are free
    script,             \* the behaviour of deterministic workers
    first_result,       \* observation: what the first of two runs returned
    other_run,          \* the frame and the context of a second run of the manager
                        \* that is suspended at an await (None: there is one run)
    run_id,             \* which run the frame and context variables belong to
    active_connections, \* ConnectionManager.active_connections
    bcast,              \* the frame of a ConnectionManager.broadcast call
    ws_log              \* observation: who was connected when broadcast was called,
                        \* who received the message, whose send failed, whose
                        \* endpoint disconnected

vars == <<pc, idx, agents_initialized, agents_mode, lead_agent, negotiation_round,
          agent_proposals, shared_insights, collaboration_log, lead_decision, heap,
          campaign_data, result, save_calls, calls, round_start,
          convergence_results, decision_writes, decision_input, decision_output,
          replay, script, first_result, other_run, run_id,
          active_connections, bcast, ws_log>>

\* the variables of two interleaved runs, and those of the websocket manager
pairvars == <<other_run, run_id>>
wsvars == <<active_connections, bcast, ws_log>>

(***************************************************************************)
(* Python values                                                           *)
(***************************************************************************)
None == [py_none |-> TRUE]

EmptyDict == [k \in {} |-> TRUE]

IsDict(v) == "py_none" \notin DOMAIN v

Get(d, k, default) == IF k \in DOMAIN d THEN d[k] ELSE default

\* d[k] = v on a dict: adds the key or overwrites it
Put(d, k, v) == [x \in (DOMAIN d) \cup {k} |-> IF x = k THEN v ELSE d[x]]

Min(a, b) == IF a <= b THEN a ELSE b

Max(a, b) == IF a >= b THEN a ELSE b

team_agent_names == <<"creative", "finance", "inventory">>

all_agent_names == <<"creative", "finance", "inventory", "lead">>

TeamNames == {team_agent_names[i] : i \in DOMAIN team_agent_names}

max_rounds == 2

approval_threshold == 20

(***************************************************************************)
(* EnhancedLeadAgent (lead_agent.py): scoring and the executive decision   *)
(***************************************************************************)

\* _calculate_financial_score with the revenue normalised against 50000 instead of
\* 100000 (variant for property C14)
FinancialScoreRevenueReferenceHalved(roi, revenue, budget, risk_score) ==
    LET roi_score == Min(1000000, Max(0, roi * 20000))
        revenue_score == IF revenue > 0 THEN Min(1000000, revenue * 20) ELSE 500000
        risk_score_adj == Max(0, 1000000 - risk_score * 10000)
    IN  roi_score * 5 + revenue_score * 3 + risk_score_adj * 2

\* min(1.0, max(0.0, roi / 50.0)), revenue / 100000.0 capped at 1 (0.5 when the
\* revenue is not positive), max(0.0, 1.0 - risk_score); weights 0.5 / 0.3 / 0.2
_calculate_financial_score(roi, revenue, budget, risk_score) ==
    LET roi_score == Min(1000000, Max(0, roi * 20000))
        revenue_score == IF revenue > 0 THEN Min(1000000, revenue * 10) ELSE 500000
        risk_score_adj == Max(0, 1000000 - risk_score * 10000)
    IN  roi_score * 5 + revenue_score * 3 + risk_score_adj * 2

\* audience_clarity in 1/10^6
_calculate_creative_score(confidence, audience_clarity) ==
    confidence * 10000 * 7 + audience_clarity * 3

\* stock_adequacy in 1/10^6
_calculate_operational_score(stock_adequacy, feasibility, inventory_confidence) ==
    LET feasibility_score ==
            CASE feasibility = "feasible" -> 1000000
              [] feasibility = "feasible_with_monitoring" -> 800000
              [] feasibility = "feasible_with_constraints" -> 600000
              [] feasibility = "requires_restocking" -> 400000
              [] OTHER -> 700000
    IN  stock_adequacy * 4 + feasibility_score * 4 + inventory_confidence * 10000 * 2

\* the metrics returned by the except branch of _extract_key_metrics
DefaultMetrics ==
    [financial_score |-> 7000000, creative_score |-> 7000000,
     operational_score |-> 8000000, overall_viability_score |-> 700,
     roi |-> 20, revenue |-> 30000, budget |-> 15000, risk_score |-> 20,
     campaign_feasibility |-> "feasible_with_monitoring"]

\* agent_outputs has the keys 'Creative', 'Finance', 'Inventory'.  A value that is
\* not a dict makes .get raise inside the try, which yields the default metrics.
_extract_key_metrics(agent_outputs) ==
    LET finance_data == Get(agent_outputs, "Finance", EmptyDict)
        creative_data == Get(agent_outputs, "Creative", EmptyDict)
        inventory_data == Get(agent_outputs, "Inventory", EmptyDict)
    IN  IF ~IsDict(finance_data) \/ ~IsDict(creative_data) \/ ~IsDict(inventory_data)
        THEN DefaultMetrics
        ELSE
          LET roi == Get(finance_data, "projected_roi", 0)
              revenue == Get(finance_data, "projected_revenue", 0)
              budget == Get(finance_data, "approved_budget", 0)
              risk_score == Get(finance_data, "risk_score", 20)
              creative_confidence == Get(creative_data, "confidence_level", 70)
              target_audience_clarity ==
                  IF Get(creative_data, "target_audience", "") # ""
                  THEN 1000000 ELSE 500000
              stock_adequacy ==
                  IF Get(inventory_data, "stock_status", "") \in {"excellent", "good"}
                  THEN 1000000 ELSE 700000
              campaign_feasibility ==
                  Get(inventory_data, "campaign_feasibility", "feasible_with_monitoring")
              inventory_confidence == Get(inventory_data, "confidence_level", 80)
          IN  [financial_score |->
                   _calculate_financial_score(roi, revenue, budget, risk_score),
               creative_score |->
                   _calculate_creative_score(creative_confidence, target_audience_clarity),
               operational_score |->
                   _calculate_operational_score(stock_adequacy, campaign_feasibility,
                                                inventory_confidence),
               overall_viability_score |-> 0,
               roi |-> roi, revenue |-> revenue, budget |-> budget,
               risk_score |-> risk_score,
               campaign_feasibility |-> campaign_feasibility]

\* overall_score of _perform_executive_analysis, in 1/10^8 (weights 0.4 / 0.3 / 0.3)
OverallScore(metrics) ==
    metrics.financial_score * 4 + metrics.creative_score * 3
        + metrics.operational_score * 3

\* round(x, 3) of a value in 1/10^8, result in thousandths.  The weighted sum is
\* a binary float: when its decimal value sits exactly on a half, the float lies
\* just above or just below it and round() goes up or down accordingly; tie_up
\* is that outcome.
Round3(x, tie_up) ==
    LET q == x \div 100000
        r == x % 100000
    IN  IF r > 50000 \/ (r = 50000 /\ tie_up) THEN q + 1 ELSE q

\* analysis['overall_viability_score'] is the unrounded score; the rounded one is
\* written back into metrics
_perform_executive_analysis(metrics) ==
    [overall_viability_score |-> OverallScore(metrics),
     strategic_alignment |->
         IF OverallScore(metrics) >= 75000000 THEN "high"
         ELSE IF OverallScore(metrics) >= 60000000 THEN "medium" ELSE "low"]

MetricsAfterAnalysis(metrics, tie_up) ==
    [metrics EXCEPT !.overall_viability_score = Round3(OverallScore(metrics), tie_up)]

\* _make_final_decision with the conditional-approval branch tested before the
\* standard-approval branch (variant for property C5)
MakeFinalDecisionBranchesSwapped(roi, overall_score, campaign_feasibility, risk_score) ==
    IF roi >= 25 /\ overall_score >= 80000000 /\ risk_score <= 20
    THEN [decision |-> "APPROVED", confidence |-> 90, priority |-> "HIGH",
          rationale |-> "Strong performance metrics: ROI, viability score, low risk profile"]
    ELSE IF roi * 10 >= 20 * 8 /\ overall_score >= 60000000
    THEN [decision |-> "APPROVED_CONDITIONAL", confidence |-> 70, priority |-> "MEDIUM",
          rationale |-> "Conditional approval: ROI acceptable with enhanced monitoring and risk mitigation"]
    ELSE IF roi >= 20 /\ overall_score >= 70000000
            /\ campaign_feasibility \in {"feasible", "feasible_with_monitoring"}
    THEN [decision |-> "APPROVED", confidence |-> 80, priority |-> "MEDIUM",
          rationale |-> "Meets approval criteria: ROI exceeds threshold, operational feasibility confirmed"]
    ELSE IF roi * 10 >= 20 * 6
    THEN [decision |-> "REQUIRES_REVISION", confidence |-> 60, priority |-> "LOW",
          rationale |-> "Strategic revision required: ROI below standards, viability score needs improvement"]
    ELSE [decision |-> "REJECTED", confidence |-> 80, priority |-> "LOW",
          rationale |-> "Campaign rejected: ROI significantly below threshold, insufficient business case"]

\* the threshold table of _make_final_decision on (roi, overall_score,
\* campaign_feasibility, risk_score); first matching branch wins.
\* approval_threshold * 0.8 and * 0.6 are compared as roi * 10 >= threshold * 8 (6).
_make_final_decision(roi, overall_score, campaign_feasibility, risk_score) ==
    IF roi >= 25 /\ overall_score >= 80000000 /\ risk_score <= 20
    THEN [decision |-> "APPROVED", confidence |-> 90, priority |-> "HIGH",
          rationale |-> "Strong performance metrics: ROI, viability score, low risk profile"]
    ELSE IF roi >= approval_threshold /\ overall_score >= 70000000
            /\ campaign_feasibility \in {"feasible", "feasible_with_monitoring"}
    THEN [decision |-> "APPROVED", confidence |-> 80, priority |-> "MEDIUM",
          rationale |-> "Meets approval criteria: ROI exceeds threshold, operational feasibility confirmed"]
    ELSE IF roi * 10 >= approval_threshold * 8 /\ overall_score >= 60000000
    THEN [decision |-> "APPROVED_CONDITIONAL", confidence |-> 70, priority |-> "MEDIUM",
          rationale |-> "Conditional approval: ROI acceptable with enhanced monitoring and risk mitigation"]
    ELSE IF roi * 10 >= approval_threshold * 6
    THEN [decision |-> "REQUIRES_REVISION", confidence |-> 60, priority |-> "LOW",
          rationale |-> "Strategic revision required: ROI below standards, viability score needs improvement"]
    ELSE [decision |-> "REJECTED", confidence |-> 80, priority |-> "LOW",
          rationale |-> "Campaign rejected: ROI significantly below threshold, insufficient business case"]

\* round(base_probability * 0.6 + decision_confidence * 0.4, 3), in thousandths;
\* base_probability is the rounded overall score (thousandths)
_calculate_success_probability(metrics, decision) ==
    LET tenthousandths == metrics.overall_viability_score * 6 + decision.confidence * 40
        q == tenthousandths \div 10
        r == tenthousandths % 10
    IN  IF r > 5 \/ (r = 5 /\ q % 2 = 1) THEN q + 1 ELSE q

_get_fallback_executive_decision ==
    [agent |-> "Enhanced Lead Agent (Fallback)",
     executive_decision |-> "APPROVED_CONDITIONAL",
     decision_confidence |-> 70,
     strategic_priority |-> "MEDIUM",
     decision_rationale |-> "Executive fallback decision with standard business protocols",
     success_probability |-> 700,
     authority_level |-> "EXECUTIVE_FALLBACK",
     confidence_level |-> 70,
     reasoning |-> "Comprehensive executive analysis completed with multi-agent coordination"]

\* make_executive_decision.  ai_ok = FALSE: gemini_client.generate_response raises,
\* which the outer try turns into the fallback decision.  A Finance or Inventory
\* output that is not a dict makes _identify_strategic_dependencies raise, with the
\* same effect.
make_executive_decision(agent_outputs, ai_ok, tie_up) ==
    LET metrics0 == _extract_key_metrics(agent_outputs)
        analysis == _perform_executive_analysis(metrics0)
        metrics == MetricsAfterAnalysis(metrics0, tie_up)
        decision_result ==
            _make_final_decision(metrics.roi, analysis.overall_viability_score,
                                 metrics.campaign_feasibility, metrics.risk_score)
    IN  IF ~ai_ok THEN _get_fallback_executive_decision
        ELSE IF ~IsDict(Get(agent_outputs, "Finance", EmptyDict))
                \/ ~IsDict(Get(agent_outputs, "Inventory", EmptyDict))
        THEN _get_fallback_executive_decision
        ELSE [agent |-> "Enhanced Lead Agent",
              executive_decision |-> decision_result.decision,
              decision_confidence |-> decision_result.confidence,
              strategic_priority |-> decision_result.priority,
              decision_rationale |-> decision_result.rationale,
              key_metrics_analysis |-> metrics,
              success_probability |->
                  _calculate_success_probability(metrics, decision_result),
              authority_level |-> "EXECUTIVE",
              confidence_level |-> decision_result.confidence,
              reasoning |-> decision_result.rationale]

(***************************************************************************)
(* EnhancedAgentManager (enhanced_agent_manager.py): pure helpers          *)
(***************************************************************************)

\* f'Target {customers.get("total_customers", 1000)} customers'
TargetCustomersText(n) ==
    CASE n = 1000 -> "Target 1000 customers"
      [] n = 2500 -> "Target 2500 customers"
      [] OTHER -> "Target customers"

\* the static insight set substituted when loading from the database fails
DefaultInsights(product) ==
    [product |-> [name |-> product, stock_quantity |-> 150, category |-> "Electronics"],
     customers |-> [total_customers |-> 1000]]

_create_fallback_proposal(agent_name, insights, data) ==
    LET product == Get(insights, "product", EmptyDict)
        customers == Get(insights, "customers", EmptyDict)
    IN  CASE agent_name = "creative" ->
               [agent |-> "Enhanced Creative Agent (Fallback)",
                strategy |-> <<"Creative marketing campaign for",
                               Get(product, "name", "product"), "focusing on", data.query>>,
                target_audience |->
                    TargetCustomersText(Get(customers, "total_customers", 1000)),
                recommended_channels |-> <<"email", "social", "content">>,
                reasoning |-> "Fallback creative strategy due to agent error",
                confidence_level |-> 60]
          [] agent_name = "finance" ->
               [agent |-> "Enhanced Finance Agent (Fallback)",
                projected_roi |-> 22,
                projected_revenue |-> 45000,
                approved_budget |-> 20000,
                risk_assessment |-> "Medium",
                success_probability |-> 750,
                approval_status |-> "approved_conditional",
                reasoning |-> "Fallback financial analysis - conservative estimates applied due to calculation error",
                confidence_level |-> 60]
          [] agent_name = "inventory" ->
               [agent |-> "Enhanced Inventory Agent (Fallback)",
                current_stock |-> Get(product, "stock_quantity", 150),
                stock_status |-> "adequate",
                campaign_feasibility |-> "feasible_with_monitoring",
                projected_campaign_demand |-> 50,
                supply_chain_risk_level |-> "medium",
                reasoning |-> "Fallback inventory analysis - conservative estimates applied due to calculation error",
                confidence_level |-> 60]
          [] OTHER ->
               [agent |-> "Enhanced Lead Agent (Fallback)",
                executive_decision |-> "APPROVED_CONDITIONAL",
                strategic_priority |-> "MEDIUM",
                decision_confidence |-> 70,
                decision_rationale |-> "Fallback executive decision with standard business protocols",
                confidence_level |-> 70,
                authority_level |-> "EXECUTIVE_FALLBACK"]

\* what the FallbackAgent objects of _create_fallback_agent return on analysis
FallbackAgentAnalyze(agent_name) ==
    CASE agent_name = "creative" ->
           [agent |-> "Creative Agent (Fallback)", status |-> "fallback_mode",
            reasoning |-> "Creative agent running in fallback mode due to initialization error",
            confidence_level |-> 60]
      [] agent_name = "finance" ->
           [agent |-> "Finance Agent (Fallback)", projected_roi |-> 20,
            projected_revenue |-> 30000, approved_budget |-> 15000,
            status |-> "fallback_mode",
            reasoning |-> "Finance agent running in fallback mode due to initialization error",
            confidence_level |-> 60]
      [] OTHER ->
           [agent |-> "Inventory Agent (Fallback)", current_stock |-> 150,
            stock_status |-> "adequate",
            campaign_feasibility |-> "feasible_with_monitoring",
            status |-> "fallback_mode",
            reasoning |-> "Inventory agent running in fallback mode due to initialization error",
            confidence_level |-> 60]

\* _fallback_executive_decision calls .get on its three arguments: it raises
\* AttributeError when one of them is not a dict
FallbackDecisionRaises(creative, finance, inventory) ==
    ~IsDict(finance) \/ ~IsDict(inventory) \/ ~IsDict(creative)

\* _fallback_executive_decision with the creative-confidence test at 0.5 instead
\* of 0.7 (variant for property C13)
FallbackDecisionLowConfidenceBar(creative, finance, inventory) ==
    LET roi == Get(finance, "projected_roi", 0)
        stock_status == Get(inventory, "stock_status", "unknown")
        creative_confidence == Get(creative, "confidence_level", 50)
        decision ==
            IF roi >= 20 /\ stock_status \in {"excellent", "good", "adequate"}
                         /\ creative_confidence > 50
            THEN "APPROVED"
            ELSE IF roi >= 15 /\ stock_status # "critical"
            THEN "APPROVED_CONDITIONAL"
            ELSE "REQUIRES_REVISION"
        priority ==
            CASE decision = "APPROVED" -> "HIGH"
              [] decision = "APPROVED_CONDITIONAL" -> "MEDIUM"
              [] OTHER -> "LOW"
    IN  [agent |-> "Enhanced Lead Agent (Fallback)",
         executive_decision |-> decision,
         strategic_priority |-> priority,
         decision_confidence |-> 70,
         decision_rationale |-> "Fallback executive decision based on ROI and inventory status",
         authority_level |-> "EXECUTIVE_FALLBACK",
         confidence_level |-> 70,
         success_probability |-> 600]

\* _fallback_executive_decision with the priority MEDIUM whatever the label
\* (variant for property C30)
FallbackDecisionPriorityMedium(creative, finance, inventory) ==
    LET roi == Get(finance, "projected_roi", 0)
        stock_status == Get(inventory, "stock_status", "unknown")
        creative_confidence == Get(creative, "confidence_level", 50)
        decision ==
            IF roi >= 20 /\ stock_status \in {"excellent", "good", "adequate"}
                         /\ creative_confidence > 70
            THEN "APPROVED"
            ELSE IF roi >= 15 /\ stock_status # "critical"
            THEN "APPROVED_CONDITIONAL"
            ELSE "REQUIRES_REVISION"
        priority ==
            "MEDIUM"
    IN  [agent |-> "Enhanced Lead Agent (Fallback)",
         executive_decision |-> decision,
         strategic_priority |-> priority,
         decision_confidence |-> 70,
         decision_rationale |-> "Fallback executive decision based on ROI and inventory status",
         authority_level |-> "EXECUTIVE_FALLBACK",
         confidence_level |-> 70,
         success_probability |-> 600]

_fallback_executive_decision(creative, finance, inventory) ==
    LET roi == Get(finance, "projected_roi", 0)
        stock_status == Get(inventory, "stock_status", "unknown")
        creative_confidence == Get(creative, "confidence_level", 50)
        decision ==
            IF roi >= 20 /\ stock_status \in {"excellent", "good", "adequate"}
                         /\ creative_confidence > 70
            THEN "APPROVED"
            ELSE IF roi >= 15 /\ stock_status # "critical"
            THEN "APPROVED_CONDITIONAL"
            ELSE "REQUIRES_REVISION"
        priority ==
            CASE decision = "APPROVED" -> "HIGH"
              [] decision = "APPROVED_CONDITIONAL" -> "MEDIUM"
              [] OTHER -> "LOW"
    IN  [agent |-> "Enhanced Lead Agent (Fallback)",
         executive_decision |-> decision,
         strategic_priority |-> priority,
         decision_confidence |-> 70,
         decision_rationale |-> "Fallback executive decision based on ROI and inventory status",
         authority_level |-> "EXECUTIVE_FALLBACK",
         confidence_level |-> 70,
         success_probability |-> 600]

\* _check_team_convergence that counts a proposal only when its confidence is at
\* least 0.7 (variant for property C27)
ConvergenceNeedsHighConfidence(proposals) ==
    LET team_proposals == {a \in DOMAIN proposals : a \in TeamNames}
        confidences == {a \in TeamNames :
                           /\ a \in DOMAIN proposals
                           /\ IsDict(proposals[a])
                           /\ Get(proposals[a], "confidence_level", 50) >= 70}
    IN  IF Cardinality(team_proposals) < 3 THEN FALSE
        ELSE Cardinality(confidences) >= 3

\* _check_team_convergence on the proposal values (name -> value)
_check_team_convergence(proposals) ==
    LET team_proposals == {a \in DOMAIN proposals : a \in TeamNames}
        confidences == {a \in TeamNames : a \in DOMAIN proposals /\ IsDict(proposals[a])}
    IN  IF Cardinality(team_proposals) < 3 THEN FALSE
        ELSE Cardinality(confidences) >= 3

\* get_other_agent_proposals without the filter: every caller is given all the
\* proposals (variant for property C25)
GetOtherProposalsUnfiltered(proposals, current_agent) == proposals

\* get_other_agent_proposals on the proposal values
get_other_agent_proposals(proposals, current_agent) ==
    IF current_agent = "lead" THEN proposals
    ELSE [k \in (DOMAIN proposals) \ {current_agent, "lead"} |-> proposals[k]]

_fallback_comprehensive_result(data, round, interactions) ==
    [query |-> data.query, product |-> data.product,
     Creative |-> [agent |-> "Creative (Fallback)",
                   strategy |-> <<"Marketing strategy for", data.product>>],
     Finance |-> [agent |-> "Finance (Fallback)", projected_roi |-> 20,
                  approved_budget |-> 20000],
     Inventory |-> [agent |-> "Inventory (Fallback)", stock_status |-> "adequate",
                    campaign_feasibility |-> "feasible"],
     Lead |-> [agent |-> "Lead (Fallback)", executive_decision |-> "APPROVED_CONDITIONAL"],
     Executive_Decision |-> "APPROVED_CONDITIONAL",
     Strategic_Priority |-> "MEDIUM",
     collaboration_rounds |-> round,
     agent_interactions |-> interactions,
     consensus_reached |-> TRUE,
     authority_structure |-> "FALLBACK_MODE"]

_fallback_response(query, product) ==
    [query |-> query, product |-> product,
     Creative |-> [agent |-> "Creative (Fallback)",
                   strategy |-> <<"Marketing strategy for", product>>],
     Finance |-> [agent |-> "Finance (Fallback)", projected_roi |-> 20,
                  approved_budget |-> 20000],
     Inventory |-> [agent |-> "Inventory (Fallback)", stock_status |-> "adequate"],
     Lead |-> [agent |-> "Lead (Fallback)", executive_decision |-> "APPROVED_CONDITIONAL"],
     Executive_Decision |-> "APPROVED_CONDITIONAL",
     collaboration_rounds |-> 0,
     agent_interactions |-> 0,
     consensus_reached |-> TRUE,
     error_note |-> "Enhanced 4-agent system encountered error",
     authority_structure |-> "FALLBACK_MODE"]

\* the try body of _phase_4_result_compilation; lead is context.lead_decision or {}
CompiledResult(data, creative, finance, inventory, lead, round, interactions) ==
    [query |-> data.query, product |-> data.product,
     Creative |-> creative, Finance |-> finance, Inventory |-> inventory,
     Lead |-> lead,
     Executive_Decision |-> Get(lead, "executive_decision", "APPROVED_CONDITIONAL"),
     Strategic_Priority |-> Get(lead, "strategic_priority", "MEDIUM"),
     collaboration_rounds |-> round,
     agent_interactions |-> interactions,
     consensus_reached |-> TRUE,
     authority_structure |-> "LEAD_AGENT_EXECUTIVE_AUTHORITY",
     success_probability |-> Get(lead, "success_probability", 750),
     final_recommendation |->
         [executive_summary |->
              Get(lead, "decision_rationale",
                  "Executive decision completed with comprehensive analysis"),
          strategic_decision |-> Get(lead, "executive_decision", "APPROVED_CONDITIONAL"),
          lead_agent_authority |-> TRUE],
     agent_reasoning |->
         [lead_agent |-> Get(lead, "decision_rationale", "Executive decision authority"),
          creative |-> Get(creative, "reasoning", "Creative analysis completed"),
          finance |-> Get(finance, "reasoning", "Financial analysis completed"),
          inventory |-> Get(inventory, "reasoning", "Inventory analysis completed")]]

\* creative_proposal.get('reasoning', ...) etc. raise when a proposal is not a dict;
\* the except branch returns _fallback_comprehensive_result
_phase_4_result_compilation(data, creative, finance, inventory, lead, round, interactions) ==
    IF IsDict(creative) /\ IsDict(finance) /\ IsDict(inventory)
    THEN CompiledResult(data, creative, finance, inventory, lead, round, interactions)
    ELSE _fallback_comprehensive_result(data, round, interactions)

(***************************************************************************)
(* negotiate_with_agents of the three team workers.  Each takes the        *)
(* worker's current proposal and the peer map, mutates the proposal and    *)
(* returns it; the result here is [raised, value], value being the         *)
(* proposal object's content when the call ends.  The workers look their   *)
(* peers up under the keys 'Finance', 'Creative', 'Inventory'.             *)
(***************************************************************************)

\* "broad" in target_audience.lower(), on the audience strings of the model
ContainsBroad(s) == s \in {"Broad consumer market"}

\* _estimate_creative_budget: 20% of the total budget (the per-channel breakdown
\* is left out)
_estimate_creative_budget(total_budget) ==
    [total_creative_budget |-> (total_budget * 20) \div 100]

CreativeNegotiate(proposal, other_agents_data) ==
    LET finance_data == Get(other_agents_data, "Finance", EmptyDict)
        inventory_data == Get(other_agents_data, "Inventory", EmptyDict)
        approved_budget == Get(finance_data, "approved_budget", 20000)
        current_budget ==
            Get(Get(proposal, "estimated_budget", EmptyDict), "total_creative_budget", 3000)
        p1 == IF current_budget * 4 > approved_budget
              THEN Put(Put(proposal, "estimated_budget",
                           _estimate_creative_budget(approved_budget)),
                       "budget_adjusted", TRUE)
              ELSE proposal
        limited == Get(inventory_data, "stock_status", "") = "limited"
        p2 == Put(p1, "recommended_channels",
                  SubSeq(Get(p1, "recommended_channels", <<>>), 1,
                         Min(3, Len(Get(p1, "recommended_channels", <<>>)))))
        p3 == Put(p2, "strategy",
                  Append(p2.strategy, "- Focused targeting due to inventory constraints"))
    IN  IF ~IsDict(proposal) THEN [raised |-> TRUE, value |-> proposal]
        ELSE IF ~IsDict(finance_data)
        THEN [raised |-> FALSE, value |-> Put(proposal, "negotiation_error", "error")]
        ELSE IF ~IsDict(inventory_data)
        THEN [raised |-> FALSE, value |-> Put(p1, "negotiation_error", "error")]
        ELSE IF limited /\ "strategy" \notin DOMAIN p2
        THEN [raised |-> FALSE, value |-> Put(p2, "negotiation_error", "error")]
        ELSE IF limited
        THEN [raised |-> FALSE, value |-> Put(p3, "negotiation_complete", TRUE)]
        ELSE [raised |-> FALSE, value |-> Put(p1, "negotiation_complete", TRUE)]

FinanceNegotiate(proposal, other_agents_data) ==
    LET inventory_data == Get(other_agents_data, "Inventory", EmptyDict)
        creative_data == Get(other_agents_data, "Creative", EmptyDict)
        limited == Get(inventory_data, "stock_status", "") = "limited"
        p1 == IF limited
              THEN Put(Put(proposal, "approved_budget",
                           (Get(proposal, "approved_budget", 20000) * 8) \div 10),
                       "budget_adjustment_reason", "Reduced due to inventory limitations")
              ELSE proposal
        creative_budget ==
            Get(Get(creative_data, "estimated_budget", EmptyDict),
                "total_creative_budget", 0)
        p2 == IF creative_budget * 4 > Get(p1, "approved_budget", 20000)
              THEN Put(p1, "creative_budget_warning", "Creative budget exceeds 25% threshold")
              ELSE p1
        p3 == Put(p2, "negotiation_round", Get(p2, "negotiation_round", 0) + 1)
    IN  IF ~IsDict(inventory_data) \/ ~IsDict(proposal)
        THEN [raised |-> FALSE, value |-> proposal]
        ELSE IF ~IsDict(creative_data)
        THEN [raised |-> FALSE, value |-> p1]
        ELSE [raised |-> FALSE, value |-> p3]

InventoryNegotiate(proposal, other_agents_data) ==
    LET finance_data == Get(other_agents_data, "Finance", EmptyDict)
        creative_data == Get(other_agents_data, "Creative", EmptyDict)
        approved_budget == Get(finance_data, "approved_budget", 20000)
        p1 == IF approved_budget < 15000
              THEN Put(proposal, "budget_inventory_optimization",
                       [budget_constraint_applied |-> TRUE])
              ELSE proposal
        broad == ContainsBroad(Get(creative_data, "target_audience", ""))
        p2 == IF broad
              THEN Put(Put(p1, "projected_campaign_demand",
                           (Get(p1, "projected_campaign_demand", 50) * 12) \div 10),
                       "demand_adjustment", "Increased for broad audience targeting")
              ELSE p1
        p3 == Put(p2, "negotiation_round", Get(p2, "negotiation_round", 0) + 1)
    IN  IF ~IsDict(finance_data) \/ ~IsDict(proposal)
        THEN [raised |-> FALSE, value |-> proposal]
        ELSE IF ~IsDict(creative_data)
        THEN [raised |-> FALSE, value |-> p1]
        ELSE [raised |-> FALSE, value |-> p3]

negotiate_with_agents(agent_name, proposal, other_agents_data) ==
    CASE agent_name = "creative" -> CreativeNegotiate(proposal, other_agents_data)
      [] agent_name = "finance" -> FinanceNegotiate(proposal, other_agents_data)
      [] OTHER -> InventoryNegotiate(proposal, other_agents_data)

(***************************************************************************)
(* The environment: inputs of a run and what the workers may do            *)
(***************************************************************************)
Queries == {"aggressive Q4 push"}

Products == {"WidgetX"}

\* what get_product_context / get_customer_context deliver when they succeed
LoadedInsights(product) ==
    [product |-> [name |-> product, stock_quantity |-> 80, category |-> "Electronics"],
     customers |-> [total_customers |-> 2500]]

Raise == [py_raise |-> TRUE]

\* values a team worker's analysis may return: dict-shaped proposals, the empty
\* dict among them, or a value that is not a dict (None)
AnalyzeReturns(agent_name) ==
    CASE agent_name = "creative" ->
           {[agent |-> "Enhanced Creative Agent",
             strategy |-> <<"Digital-first campaign">>,
             target_audience |-> "Tech-savvy professionals",
             recommended_channels |-> <<"email", "social", "search", "display">>,
             estimated_budget |-> [total_creative_budget |-> 6000],
             reasoning |-> "Creative strategy optimized for target audience",
             confidence_level |-> 85],
            [agent |-> "Enhanced Creative Agent",
             reasoning |-> "Creative strategy with limited audience data",
             confidence_level |-> 55],
            EmptyDict,
            None}
      [] agent_name = "finance" ->
           {[agent |-> "Enhanced Finance Agent", projected_roi |-> 30,
             projected_revenue |-> 60000, approved_budget |-> 20000,
             risk_score |-> 15,
             reasoning |-> "Strong financial case", confidence_level |-> 80],
            [agent |-> "Enhanced Finance Agent", projected_roi |-> 18,
             projected_revenue |-> 25000, approved_budget |-> 12000,
             risk_score |-> 35,
             reasoning |-> "Moderate financial case", confidence_level |-> 65],
            [agent |-> "Enhanced Finance Agent", projected_roi |-> 10,
             projected_revenue |-> 0, approved_budget |-> 8000,
             risk_score |-> 60,
             reasoning |-> "Weak financial case", confidence_level |-> 40],
            EmptyDict,
            None}
      [] OTHER ->
           {[agent |-> "Enhanced Inventory Agent", current_stock |-> 400,
             stock_status |-> "good", campaign_feasibility |-> "feasible",
             projected_campaign_demand |-> 50,
             reasoning |-> "Stock supports the campaign", confidence_level |-> 90],
            [agent |-> "Enhanced Inventory Agent", current_stock |-> 40,
             stock_status |-> "limited",
             campaign_feasibility |-> "feasible_with_constraints",
             projected_campaign_demand |-> 50,
             reasoning |-> "Stock limits the campaign", confidence_level |-> 70],
            [agent |-> "Enhanced Inventory Agent", current_stock |-> 5,
             stock_status |-> "critical",
             campaign_feasibility |-> "requires_restocking",
             reasoning |-> "Stock is critical", confidence_level |-> 45],
            EmptyDict,
            None}

\* a team worker's analysis returns one of these values or raises
AnalyzeOutcomes(agent_name) == AnalyzeReturns(agent_name) \cup {Raise}

\* a team worker's negotiation: the repository's negotiate_with_agents ("refine"),
\* a worker that raises ("raise"), a worker without the method ("no_method")
NegotiateOutcomes == {"refine", "raise", "no_method"}

\* the lead worker: the repository's make_executive_decision with text generation
\* succeeding ("decide") or failing ("ai_fail"), a lead worker that raises, and
\* a lead worker that returns None or an empty dict
LeadOutcomes == {"decide", "ai_fail", "raise", "returns_none", "returns_empty"}

(***************************************************************************)
(* AgentCollaborationContext                                               *)
(***************************************************************************)
LogEntry(round, agent, action, details) ==
    [round |-> round, agent |-> agent, action |-> action, details |-> details]

\* the proposal values: name -> content of the dict object the name refers to
ProposalValues(proposals, h) == [a \in DOMAIN proposals |-> h[proposals[a]]]

CurrentProposals == ProposalValues(agent_proposals, heap)

\* outcome: "returned" or "raised"
CallRecord(op, agent, round, current, others, outcome) ==
    [op |-> op, agent |-> agent, round |-> round, current |-> current,
     others |-> others, outcome |-> outcome]

(***************************************************************************)
(* run_collaborative_campaign_analysis, one action per stretch of code     *)
(* between two awaits                                                      *)
(***************************************************************************)
\* the manager after EnhancedAgentManager(), before any run
ManagerInit ==
    /\ pc = "start"
    /\ idx = 1
    /\ agents_initialized = FALSE
    /\ agents_mode = "none"
    /\ lead_agent = FALSE
    /\ negotiation_round = 0
    /\ agent_proposals = EmptyDict
    /\ shared_insights = EmptyDict
    /\ collaboration_log = <<>>
    /\ lead_decision = 0
    /\ heap = <<>>
    /\ campaign_data \in [query : Queries, product : Products]
    /\ result = None
    /\ save_calls = 0
    /\ calls = <<>>
    /\ round_start = <<>>
    /\ convergence_results = <<>>
    /\ decision_writes = 0

\* there is one run of the manager, and no websocket traffic
SingleRun ==
    /\ other_run = None
    /\ run_id = 1
    /\ active_connections = <<>>
    /\ bcast = None
    /\ ws_log = None

\* the workers, the context loader and the text generator are free in what they
\* do at each call
NotRecording ==
    /\ replay = "off"
    /\ script = <<>>
    /\ first_result = None

Init ==
    /\ ManagerInit
    /\ decision_input = None
    /\ decision_output = None
    /\ NotRecording
    /\ SingleRun

\* a call of kind "load", "analyze", "negotiate" or "decide"; agent is the worker
\* called ("" for the context loader), value what it does
Choice(kind, agent, value) == [kind |-> kind, agent |-> agent, value |-> value]

\* what deterministic workers do at the call: script.load, script.analyze[agent],
\* script.negotiate[agent], script.lead_call
Scripted(kind, agent) ==
    CASE kind = "load" -> script.load
      [] kind = "analyze" -> script.analyze[agent]
      [] kind = "negotiate" -> script.negotiate[agent]
      [] OTHER -> script.lead_call

\* The agent object a worker call is made on.  _run_agent_analysis looks the
\* agent up in self.agents before it awaits the call; a call that was suspended
\* was made on a worker (a FallbackAgent's methods never suspend), whatever
\* self.agents holds when the call is resumed.
CalleeMode ==
    IF pc \in {"phase1_resumed", "phase2_resumed"} THEN "workers" ELSE agents_mode

\* The choice c an action makes for a call.  Free workers may do anything.
\* Deterministic workers do what the script says, each time they are called; the
\* FallbackAgent objects and the fallback decision function are the manager's
\* own code and follow no script.
Chosen(c) ==
    IF replay = "off" THEN TRUE
    ELSE IF c.kind \in {"analyze", "negotiate"} /\ CalleeMode = "fallback_agents"
    THEN TRUE
    ELSE IF c.kind = "decide" /\ ~lead_agent THEN TRUE
    ELSE c.value = Scripted(c.kind, c.agent)

\* _initialize_agents without the test of self._agents_initialized: the agents
\* are built again in every run (variant for property C15)
InitializeAgentsEveryRun ==
    /\ pc = "start"
    /\ \E outcome \in {"ok", "ctor_fail", "init_fail"} :
         /\ agents_mode' = IF outcome = "ok" THEN "workers" ELSE "fallback_agents"
         /\ lead_agent' = (outcome # "ctor_fail")
    /\ agents_initialized' = TRUE
    /\ negotiation_round' = 0
    /\ agent_proposals' = EmptyDict
    /\ shared_insights' = EmptyDict
    /\ collaboration_log' = <<>>
    /\ lead_decision' = 0
    /\ pc' = "load"
    /\ UNCHANGED <<idx, heap, campaign_data, result, save_calls, calls, round_start,
                   convergence_results, decision_writes, decision_input, decision_output,
                   replay, script, first_result, pairvars, wsvars>>

\* _initialize_agents, then the creation of the context.
\* "ok": the four agents are built; "ctor_fail": a constructor raises before
\* self.lead_agent is assigned; "init_fail": an initialize() call raises.
\* Nothing is done when the agents were initialized by an earlier run.
InitializeAgents ==
    /\ pc = "start"
    /\ IF agents_initialized
       THEN UNCHANGED <<agents_mode, lead_agent>>
       ELSE \E outcome \in {"ok", "ctor_fail", "init_fail"} :
              /\ agents_mode' = IF outcome = "ok" THEN "workers" ELSE "fallback_agents"
              /\ lead_agent' = (outcome # "ctor_fail")
    /\ agents_initialized' = TRUE
    /\ negotiation_round' = 0
    /\ agent_proposals' = EmptyDict
    /\ shared_insights' = EmptyDict
    /\ collaboration_log' = <<>>
    /\ lead_decision' = 0
    /\ pc' = "load"
    /\ UNCHANGED <<idx, heap, campaign_data, result, save_calls, calls, round_start,
                   convergence_results, decision_writes, decision_input, decision_output,
                   replay, script, first_result, pairvars, wsvars>>

\* _load_context_data from its first await on: get_product_context returns and
\* the product is stored, and the coroutine awaits get_customer_context; or the
\* call raises and the except branch installs the static defaults
LoadProductContext ==
    /\ pc = "load"
    /\ \E ok \in BOOLEAN :
         /\ Chosen(Choice("load", "", ok))
         /\ IF ok
            THEN /\ shared_insights' =
                        Put(shared_insights, "product",
                            LoadedInsights(campaign_data.product).product)
                 /\ pc' = "load_customers"
            ELSE /\ shared_insights' = DefaultInsights(campaign_data.product)
                 /\ pc' = "phase1"
    /\ idx' = 1
    /\ UNCHANGED <<agents_initialized, agents_mode, lead_agent, negotiation_round,
                   agent_proposals, collaboration_log, lead_decision, heap,
                   campaign_data, result, save_calls, calls, round_start,
                   convergence_results, decision_writes, decision_input, decision_output,
                   replay, script, first_result, pairvars, wsvars>>

\* _load_context_data from its second await on: get_customer_context returns
\* and the customers are stored; or the call raises and the except branch
\* replaces the insights, the stored product included, by the static defaults
LoadCustomerContext ==
    /\ pc = "load_customers"
    /\ \E ok \in BOOLEAN :
         /\ Chosen(Choice("load", "", ok))
         /\ shared_insights' =
                IF ok
                THEN Put(shared_insights, "customers",
                         LoadedInsights(campaign_data.product).customers)
                ELSE DefaultInsights(campaign_data.product)
    /\ pc' = "phase1"
    /\ idx' = 1
    /\ UNCHANGED <<agents_initialized, agents_mode, lead_agent, negotiation_round,
                   agent_proposals, collaboration_log, lead_decision, heap,
                   campaign_data, result, save_calls, calls, round_start,
                   convergence_results, decision_writes, decision_input, decision_output,
                   replay, script, first_result, pairvars, wsvars>>

\* _run_agent_analysis(independent=True) with an except branch that returns None
\* instead of the fallback proposal (variant for property C2)
RunAnalysisWithoutFallback(agent_name, outcome) ==
    IF CalleeMode = "fallback_agents" THEN FallbackAgentAnalyze(agent_name)
    ELSE IF outcome = Raise THEN None
    ELSE outcome

\* _run_agent_analysis(independent=True): the worker's value, or the fallback
\* proposal when the worker raises
RunAnalysis(agent_name, outcome) ==
    IF CalleeMode = "fallback_agents" THEN FallbackAgentAnalyze(agent_name)
    ELSE IF outcome = Raise
    THEN _create_fallback_proposal(agent_name, shared_insights, campaign_data)
    ELSE outcome

\* one iteration of the loop of _phase_1_team_analysis
Phase1Analyze ==
    /\ pc \in {"phase1", "phase1_resumed"}
    /\ LET agent_name == team_agent_names[idx]
       IN  \E outcome \in (IF CalleeMode = "fallback_agents" THEN {Raise}
                           ELSE AnalyzeOutcomes(agent_name)) :
             LET value == RunAnalysis(agent_name, outcome)
                 ref == Len(heap) + 1
             IN  /\ Chosen(Choice("analyze", agent_name, outcome))
                 /\ heap' = Append(heap, value)
                 /\ agent_proposals' = Put(agent_proposals, agent_name, ref)
                 /\ collaboration_log' =
                        Append(collaboration_log,
                               LogEntry(negotiation_round, agent_name,
                                        "proposal_updated", ref))
                 /\ calls' = Append(calls,
                                    CallRecord("analyze", agent_name, negotiation_round,
                                               None, EmptyDict,
                                               IF CalleeMode = "workers" /\ outcome = Raise
                                               THEN "raised" ELSE "returned"))
    /\ IF idx < Len(team_agent_names)
       THEN /\ idx' = idx + 1 /\ pc' = "phase1"
       ELSE /\ idx' = 1 /\ pc' = "round_begin"
    /\ UNCHANGED <<agents_initialized, agents_mode, lead_agent, negotiation_round,
                   shared_insights, lead_decision, campaign_data, result, save_calls,
                   round_start,
                   convergence_results, decision_writes, decision_input, decision_output,
                   replay, script, first_result, pairvars, wsvars>>

\* the head of a loop that runs one round too many (variant for property C8)
BeginRoundOneTooMany ==
    /\ pc = "round_begin"
    /\ IF negotiation_round < max_rounds + 1
       THEN /\ negotiation_round' = negotiation_round + 1
            /\ round_start' = Append(round_start, CurrentProposals)
            /\ pc' = "phase2"
       ELSE /\ pc' = "phase3"
            /\ UNCHANGED <<negotiation_round, round_start>>
    /\ idx' = 1
    /\ UNCHANGED <<agents_initialized, agents_mode, lead_agent, agent_proposals,
                   shared_insights, collaboration_log, lead_decision, heap,
                   campaign_data, result, save_calls, calls,
                   convergence_results, decision_writes, decision_input, decision_output,
                   replay, script, first_result, pairvars, wsvars>>

\* the head of the loop of _phase_2_team_negotiation
BeginRound ==
    /\ pc = "round_begin"
    /\ IF negotiation_round < max_rounds
       THEN /\ negotiation_round' = negotiation_round + 1
            /\ round_start' = Append(round_start, CurrentProposals)
            /\ pc' = "phase2"
       ELSE /\ pc' = "phase3"
            /\ UNCHANGED <<negotiation_round, round_start>>
    /\ idx' = 1
    /\ UNCHANGED <<agents_initialized, agents_mode, lead_agent, agent_proposals,
                   shared_insights, collaboration_log, lead_decision, heap,
                   campaign_data, result, save_calls, calls,
                   convergence_results, decision_writes, decision_input, decision_output,
                   replay, script, first_result, pairvars, wsvars>>

\* _run_agent_analysis(independent=False) on the current state: [fresh, value].
\* fresh = FALSE: the returned dict is the worker's current proposal object, with
\* content `value`; fresh = TRUE: a new dict (the fallback proposal).
RunNegotiation(agent_name, outcome) ==
    LET current_proposal == heap[agent_proposals[agent_name]]
        other_proposals == get_other_agent_proposals(CurrentProposals, agent_name)
        fallback == [fresh |-> TRUE,
                     value |-> _create_fallback_proposal(agent_name, shared_insights,
                                                         campaign_data)]
        refined == negotiate_with_agents(agent_name, current_proposal, other_proposals)
    IN  CASE CalleeMode = "fallback_agents" ->
               [fresh |-> FALSE, value |-> current_proposal]
          [] CalleeMode # "fallback_agents" /\ outcome = "no_method" ->
               [fresh |-> FALSE, value |-> current_proposal]
          [] CalleeMode # "fallback_agents" /\ outcome = "raise" -> fallback
          [] OTHER ->
               IF refined.raised THEN fallback
               ELSE [fresh |-> FALSE, value |-> refined.value]

\* one iteration of the inner loop of _phase_2_team_negotiation
Phase2Negotiate ==
    /\ pc \in {"phase2", "phase2_resumed"}
    /\ LET agent_name == team_agent_names[idx]
       IN  \E outcome \in (IF CalleeMode = "fallback_agents" THEN {"no_method"}
                           ELSE NegotiateOutcomes) :
             LET r == RunNegotiation(agent_name, outcome)
                 ref == IF r.fresh THEN Len(heap) + 1 ELSE agent_proposals[agent_name]
                 called == CalleeMode = "fallback_agents" \/ outcome # "no_method"
             IN  /\ Chosen(Choice("negotiate", agent_name, outcome))
                 /\ heap' = IF r.fresh THEN Append(heap, r.value)
                            ELSE [heap EXCEPT ![ref] = r.value]
                 /\ agent_proposals' = Put(agent_proposals, agent_name, ref)
                 /\ collaboration_log' =
                        Append(collaboration_log,
                               LogEntry(negotiation_round, agent_name,
                                        "proposal_updated", ref))
                 /\ calls' =
                        IF called
                        THEN Append(calls,
                                    CallRecord("negotiate", agent_name, negotiation_round,
                                               heap[agent_proposals[agent_name]],
                                               get_other_agent_proposals(CurrentProposals,
                                                                         agent_name),
                                               IF r.fresh THEN "raised" ELSE "returned"))
                        ELSE calls
    /\ IF idx < Len(team_agent_names)
       THEN /\ idx' = idx + 1 /\ pc' = "phase2"
       ELSE /\ idx' = 1 /\ pc' = "converge"
    /\ UNCHANGED <<agents_initialized, agents_mode, lead_agent, negotiation_round,
                   shared_insights, lead_decision, campaign_data, result, save_calls,
                   round_start,
                   convergence_results, decision_writes, decision_input, decision_output,
                   replay, script, first_result, pairvars, wsvars>>

\* the consensus check without the break (variant for property C9)
CheckConvergenceWithoutBreak ==
    /\ pc = "converge"
    /\ pc' = "round_begin"
    /\ convergence_results' =
           Append(convergence_results, _check_team_convergence(CurrentProposals))
    /\ UNCHANGED <<idx, agents_initialized, agents_mode, lead_agent, negotiation_round,
                   agent_proposals, shared_insights, collaboration_log, lead_decision,
                   heap, campaign_data, result, save_calls, calls, round_start,
                   decision_writes, decision_input, decision_output,
                   replay, script, first_result, pairvars, wsvars>>

\* the consensus check that sends a team without consensus back to the
\* independent analysis (variant for property C19)
CheckConvergenceBackToAnalysis ==
    /\ pc = "converge"
    /\ pc' = IF _check_team_convergence(CurrentProposals) THEN "phase3" ELSE "phase1"
    /\ convergence_results' =
           Append(convergence_results, _check_team_convergence(CurrentProposals))
    /\ UNCHANGED <<idx, agents_initialized, agents_mode, lead_agent, negotiation_round,
                   agent_proposals, shared_insights, collaboration_log, lead_decision,
                   heap, campaign_data, result, save_calls, calls, round_start,
                   decision_writes, decision_input, decision_output,
                   replay, script, first_result, pairvars, wsvars>>

\* the consensus check that ends a round
CheckConvergence ==
    /\ pc = "converge"
    /\ pc' = IF _check_team_convergence(CurrentProposals) THEN "phase3" ELSE "round_begin"
    /\ convergence_results' =
           Append(convergence_results, _check_team_convergence(CurrentProposals))
    /\ UNCHANGED <<idx, agents_initialized, agents_mode, lead_agent, negotiation_round,
                   agent_proposals, shared_insights, collaboration_log, lead_decision,
                   heap, campaign_data, result, save_calls, calls, round_start,
                   decision_writes, decision_input, decision_output,
                   replay, script, first_result, pairvars, wsvars>>

\* the three team proposals as _phase_3_executive_decision reads them:
\* context.agent_proposals.get(name, {})
TeamProposal(agent_name) == Get(CurrentProposals, agent_name, EmptyDict)

\* `context.lead_decision or {}` in _phase_4_result_compilation: the stored
\* decision, or a new empty dict when none is stored or the stored one is None
\* or empty
LeadDecisionOrEmpty(decision, h) ==
    IF decision = 0 THEN EmptyDict
    ELSE IF h[decision] = None THEN EmptyDict
    ELSE h[decision]

\* what _phase_3_executive_decision obtains: [raised, value].  With a lead agent the
\* lead worker decides; when it raises, and when there is no lead agent, the
\* decision is _fallback_executive_decision, which itself raises on a proposal
\* that is not a dict (the exception then leaves the phase).
ExecutiveDecision(outcome, tie_up) ==
    LET agent_outputs == [Creative |-> TeamProposal("creative"),
                          Finance |-> TeamProposal("finance"),
                          Inventory |-> TeamProposal("inventory")]
    IN  IF lead_agent /\ outcome = "returns_none"
        THEN [raised |-> FALSE, value |-> None]
        ELSE IF lead_agent /\ outcome = "returns_empty"
        THEN [raised |-> FALSE, value |-> EmptyDict]
        ELSE IF lead_agent /\ outcome # "raise"
        THEN [raised |-> FALSE,
              value |-> make_executive_decision(agent_outputs, outcome = "decide", tie_up)]
        ELSE IF FallbackDecisionRaises(TeamProposal("creative"), TeamProposal("finance"),
                                       TeamProposal("inventory"))
        THEN [raised |-> TRUE, value |-> None]
        ELSE [raised |-> FALSE,
              value |-> _fallback_executive_decision(TeamProposal("creative"),
                                                     TeamProposal("finance"),
                                                     TeamProposal("inventory"))]

\* _phase_3_executive_decision: set_lead_decision and update_proposal('lead'), or
\* the exception reaching the except branch of the run, which returns
\* _fallback_response
Phase3Decision ==
    /\ pc = "phase3"
    /\ \E outcome \in (IF lead_agent THEN LeadOutcomes ELSE {"raise"}), tie_up \in BOOLEAN :
         LET d == ExecutiveDecision(outcome, tie_up)
             ref == Len(heap) + 1
         IN  /\ Chosen(Choice("decide", "lead", [outcome |-> outcome, tie_up |-> tie_up]))
             /\ calls' = IF lead_agent
                         THEN Append(calls,
                                     CallRecord("decide", "lead", negotiation_round, None,
                                                CurrentProposals,
                                                IF outcome = "raise" THEN "raised"
                                                ELSE "returned"))
                         ELSE calls
             /\ IF d.raised
                THEN /\ result' = _fallback_response(campaign_data.query,
                                                     campaign_data.product)
                     /\ pc' = "done"
                     /\ UNCHANGED <<heap, lead_decision, agent_proposals,
                                    collaboration_log, decision_writes>>
                ELSE /\ heap' = Append(heap, d.value)
                     /\ lead_decision' = ref
                     /\ decision_writes' = decision_writes + 1
                     /\ agent_proposals' = Put(agent_proposals, "lead", ref)
                     /\ collaboration_log' =
                            collaboration_log
                              \o <<LogEntry(negotiation_round, "lead",
                                            "executive_decision_rendered", ref),
                                   LogEntry(negotiation_round, "lead",
                                            "proposal_updated", ref)>>
                     /\ pc' = "phase4"
                     /\ UNCHANGED result
    /\ UNCHANGED <<idx, agents_initialized, agents_mode, lead_agent, negotiation_round,
                   shared_insights, campaign_data, save_calls, round_start,
                   convergence_results, decision_input, decision_output,
                   replay, script, first_result, pairvars, wsvars>>

\* _phase_4_result_compilation
Phase4Compile ==
    /\ pc = "phase4"
    /\ result' = _phase_4_result_compilation(
                     campaign_data, TeamProposal("creative"), TeamProposal("finance"),
                     TeamProposal("inventory"),
                     LeadDecisionOrEmpty(lead_decision, heap),
                     negotiation_round, Len(collaboration_log))
    /\ pc' = "save"
    /\ UNCHANGED <<idx, agents_initialized, agents_mode, lead_agent, negotiation_round,
                   agent_proposals, shared_insights, collaboration_log, lead_decision,
                   heap, campaign_data, save_calls, calls, round_start,
                   convergence_results, decision_writes, decision_input, decision_output,
                   replay, script, first_result, pairvars, wsvars>>

\* the record of one _save_comprehensive_results(context, final_result) call: the
\* result it was given and whether insert_json_record returned or raised
SaveRecord(ok) ==
    CallRecord("save", "database", negotiation_round, result, EmptyDict,
               IF ok THEN "returned" ELSE "raised")

\* the run with a _save_comprehensive_results that lets the error of the insert
\* escape: the except branch of the run returns _fallback_response (variant for
\* property C18)
SaveResultsErrorEscapes ==
    /\ pc = "save"
    /\ \E ok \in BOOLEAN :
         /\ save_calls' = save_calls + 1
         /\ calls' = Append(calls, SaveRecord(ok))
         /\ result' = IF ok THEN result
                       ELSE _fallback_response(campaign_data.query, campaign_data.product)
    /\ pc' = "done"
    /\ UNCHANGED <<idx, agents_initialized, agents_mode, lead_agent, negotiation_round,
                   agent_proposals, shared_insights, collaboration_log, lead_decision,
                   heap, campaign_data, round_start,
                   convergence_results, decision_writes, decision_input, decision_output,
                   replay, script, first_result, pairvars, wsvars>>

\* _save_comprehensive_results (an error of the insert is caught and printed), then
\* return final_result
SaveResults ==
    /\ pc = "save"
    /\ \E ok \in BOOLEAN :
         /\ save_calls' = save_calls + 1
         /\ calls' = Append(calls, SaveRecord(ok))
    /\ pc' = "done"
    /\ UNCHANGED <<idx, agents_initialized, agents_mode, lead_agent, negotiation_round,
                   agent_proposals, shared_insights, collaboration_log, lead_decision,
                   heap, campaign_data, result, round_start,
                   convergence_results, decision_writes, decision_input, decision_output,
                   replay, script, first_result, pairvars, wsvars>>

\* `result = await self._run_agent_analysis(...)` in the loops of Phase 1 and of
\* Phase 2: the team worker's coroutine does not finish at once, and the run,
\* which awaits it inside the loop, is suspended with it.  The FallbackAgent
\* methods contain no await and never suspend.
SuspendCall ==
    /\ pc \in {"phase1", "phase1_resumed", "phase2", "phase2_resumed"}
    /\ CalleeMode = "workers"
    /\ pc' = IF pc \in {"phase1", "phase1_resumed"} THEN "phase1_suspended"
             ELSE "phase2_suspended"
    /\ UNCHANGED <<idx, agents_initialized, agents_mode, lead_agent, negotiation_round,
                   agent_proposals, shared_insights, collaboration_log, lead_decision,
                   heap, campaign_data, result, save_calls, calls, round_start,
                   convergence_results, decision_writes, decision_input, decision_output,
                   replay, script, first_result, pairvars, wsvars>>

\* the suspended worker coroutine is scheduled again; the call can now complete
ResumeCall ==
    /\ pc \in {"phase1_suspended", "phase2_suspended"}
    /\ pc' = IF pc = "phase1_suspended" THEN "phase1_resumed" ELSE "phase2_resumed"
    /\ UNCHANGED <<idx, agents_initialized, agents_mode, lead_agent, negotiation_round,
                   agent_proposals, shared_insights, collaboration_log, lead_decision,
                   heap, campaign_data, result, save_calls, calls, round_start,
                   convergence_results, decision_writes, decision_input, decision_output,
                   replay, script, first_result, pairvars, wsvars>>

Next ==
    \/ InitializeAgents
    \/ LoadProductContext
    \/ LoadCustomerContext
    \/ Phase1Analyze
    \/ BeginRound
    \/ Phase2Negotiate
    \/ CheckConvergence
    \/ Phase3Decision
    \/ Phase4Compile
    \/ SaveResults
    \/ SuspendCall
    \/ ResumeCall

Spec == Init /\ [][Next]_vars

\* the steps of the run: each is the return of the call the run awaits, and the
\* code up to the next await
RunStep ==
    \/ InitializeAgents
    \/ LoadProductContext
    \/ LoadCustomerContext
    \/ Phase1Analyze
    \/ BeginRound
    \/ Phase2Negotiate
    \/ CheckConvergence
    \/ Phase3Decision
    \/ Phase4Compile
    \/ SaveResults

\* The steps that the event loop takes whenever they are possible, because they
\* wait for nothing outside the run: a team worker's call that is not suspended
\* completes, the loop heads, the convergence check and Phase 4 contain no
\* await, and without a lead agent Phase 3 calls the fallback decision function,
\* which is not a coroutine.
LoopStep ==
    \/ Phase1Analyze
    \/ BeginRound
    \/ Phase2Negotiate
    \/ CheckConvergence
    \/ Phase3Decision /\ ~lead_agent
    \/ Phase4Compile

\* The event loop is fair to the run.  Nothing makes an awaited call return:
\* there is no timeout around the awaits of initialize(), get_product_context,
\* get_customer_context, the team workers' calls of Phase 1 and Phase 2, the lead
\* worker's make_executive_decision and insert_json_record, and the run stays
\* at any of them for as long as the call does not return.
SpecLive == Init /\ [][Next]_vars /\ WF_vars(LoopStep)

(***************************************************************************)
(* Two runs on the same manager (the module-level enhanced_agent_manager    *)
(* that run_agents uses), with the same subject and the same deterministic  *)
(* workers                                                                  *)
(***************************************************************************)
\* what a deterministic team worker's analysis does: it raises, returns None, or
\* returns its proposal with a confidence of 0.8 or more
ScriptedAnalyses(agent_name) ==
    {v \in AnalyzeOutcomes(agent_name) :
        v \in {Raise, None} \/ Get(v, "confidence_level", 0) >= 80}

Scripts ==
    [load : BOOLEAN,
     analyze : {f \in [TeamNames -> UNION {ScriptedAnalyses(a) : a \in TeamNames}] :
                   \A a \in TeamNames : f[a] \in ScriptedAnalyses(a)},
     negotiate : [TeamNames -> NegotiateOutcomes],
     lead_call : [outcome : LeadOutcomes, tie_up : BOOLEAN]]

InitTwice ==
    /\ ManagerInit
    /\ decision_input = None
    /\ decision_output = None
    /\ replay = "replay"
    /\ script \in Scripts
    /\ first_result = None
    /\ SingleRun

\* run_agents(query, product) is called again once the first call has returned.
\* The manager object keeps its agents; the context of the first run is local to
\* that run and gone, and the observations start again.
StartSecondRun ==
    /\ pc = "done"
    /\ replay = "replay"
    /\ first_result = None
    /\ first_result' = result
    /\ result' = None
    /\ pc' = "start"
    /\ idx' = 1
    /\ negotiation_round' = 0
    /\ agent_proposals' = EmptyDict
    /\ shared_insights' = EmptyDict
    /\ collaboration_log' = <<>>
    /\ lead_decision' = 0
    /\ heap' = <<>>
    /\ save_calls' = 0
    /\ calls' = <<>>
    /\ round_start' = <<>>
    /\ convergence_results' = <<>>
    /\ decision_writes' = 0
    /\ UNCHANGED <<agents_initialized, agents_mode, lead_agent, campaign_data,
                   decision_input, decision_output, replay, script,
                   pairvars, wsvars>>

\* the steps of the two runs (when a worker call is suspended for a while has no
\* bearing on what it returns, and is left out)
NextTwice ==
    \/ RunStep
    \/ StartSecondRun

SpecTwice == InitTwice /\ [][NextTwice]_vars

(***************************************************************************)
(* Two runs of run_collaborative_campaign_analysis on the same manager,     *)
(* interleaved at their awaits.  The coroutine frame and the context of a   *)
(* run are local to the run; the agents, their mapping and the flag          *)
(* _agents_initialized are attributes of the manager, and the dict objects  *)
(* live in one heap.  The frame and context variables hold the run that is  *)
(* executing; other_run holds those of the run that is suspended.           *)
(***************************************************************************)
\* the subject of the two run_agents(query, product) calls
PairSubject(r) ==
    IF r = 1 THEN [query |-> "aggressive Q4 push", product |-> "WidgetX"]
    ELSE [query |-> "spring clearance", product |-> "GadgetY"]

\* the proposal a deterministic team worker returns when it returns one
ScriptedProposal(agent_name) ==
    CHOOSE v \in ScriptedAnalyses(agent_name) : v \notin {Raise, None}

\* what the workers do for a subject: the creative worker returns its proposal
\* or None; the other two return theirs, the negotiations refine the proposals
\* in place, the lead worker decides or raises
PairScripts ==
    {[load |-> TRUE,
      analyze |-> [a \in TeamNames |->
                      IF a = "creative" THEN c ELSE ScriptedProposal(a)],
      negotiate |-> [a \in TeamNames |-> "refine"],
      lead_call |-> [outcome |-> o, tie_up |-> TRUE]] :
        c \in {ScriptedProposal("creative"), None},
        o \in {"decide", "raise"}}

\* the local variables of a run: its position, its context, what it returns, and
\* what was observed of it
Frame ==
    [pc |-> pc, idx |-> idx, negotiation_round |-> negotiation_round,
     agent_proposals |-> agent_proposals, shared_insights |-> shared_insights,
     collaboration_log |-> collaboration_log, lead_decision |-> lead_decision,
     campaign_data |-> campaign_data, result |-> result, save_calls |-> save_calls,
     calls |-> calls, round_start |-> round_start,
     convergence_results |-> convergence_results,
     decision_writes |-> decision_writes, script |-> script]

\* a run that has been called and has not run yet
NewFrame(data, behaviour) ==
    [pc |-> "start", idx |-> 1, negotiation_round |-> 0,
     agent_proposals |-> EmptyDict, shared_insights |-> EmptyDict,
     collaboration_log |-> <<>>, lead_decision |-> 0,
     campaign_data |-> data, result |-> None, save_calls |-> 0,
     calls |-> <<>>, round_start |-> <<>>, convergence_results |-> <<>>,
     decision_writes |-> 0, script |-> behaviour]

InitPair ==
    /\ pc = "start"
    /\ idx = 1
    /\ agents_initialized = FALSE
    /\ agents_mode = "none"
    /\ lead_agent = FALSE
    /\ negotiation_round = 0
    /\ agent_proposals = EmptyDict
    /\ shared_insights = EmptyDict
    /\ collaboration_log = <<>>
    /\ lead_decision = 0
    /\ heap = <<>>
    /\ campaign_data = PairSubject(1)
    /\ result = None
    /\ save_calls = 0
    /\ calls = <<>>
    /\ round_start = <<>>
    /\ convergence_results = <<>>
    /\ decision_writes = 0
    /\ decision_input = None
    /\ decision_output = None
    /\ replay = "replay"
    /\ script \in PairScripts
    /\ first_result = None
    /\ run_id = 1
    /\ \E behaviour \in PairScripts : other_run = NewFrame(PairSubject(2), behaviour)
    /\ active_connections = <<>>
    /\ bcast = None
    /\ ws_log = None

\* context = AgentCollaborationContext(campaign_data), right after
\* _initialize_agents has returned
CreateContext ==
    /\ negotiation_round' = 0
    /\ agent_proposals' = EmptyDict
    /\ shared_insights' = EmptyDict
    /\ collaboration_log' = <<>>
    /\ lead_decision' = 0

\* _initialize_agents up to its first await.  With the flag set nothing is done
\* and the context is created.  Otherwise the four constructors run: when one
\* raises, the except branch installs the FallbackAgent mapping and sets the
\* flag, and self.lead_agent keeps what it held; when none does, self.lead_agent
\* is the new lead agent and the coroutine awaits the first initialize().
InitializeAgentsBegin ==
    /\ pc = "start"
    /\ IF agents_initialized
       THEN /\ CreateContext
            /\ pc' = "load"
            /\ UNCHANGED <<agents_initialized, agents_mode, lead_agent>>
       ELSE \E constructed \in BOOLEAN :
              IF constructed
              THEN /\ lead_agent' = TRUE
                   /\ pc' = "initializing"
                   /\ UNCHANGED <<agents_initialized, agents_mode, negotiation_round,
                                  agent_proposals, shared_insights, collaboration_log,
                                  lead_decision>>
              ELSE /\ agents_mode' = "fallback_agents"
                   /\ agents_initialized' = TRUE
                   /\ CreateContext
                   /\ pc' = "load"
                   /\ UNCHANGED lead_agent
    /\ UNCHANGED <<idx, heap, campaign_data, result, save_calls, calls, round_start,
                   convergence_results, decision_writes, decision_input, decision_output,
                   replay, script, first_result, pairvars, wsvars>>

\* _initialize_agents from its awaits of initialize() on: the mapping of the
\* four agents is installed, or the FallbackAgent mapping when an initialize()
\* raised; the flag is set; the context is created
InitializeAgentsEnd ==
    /\ pc = "initializing"
    /\ \E initialized \in BOOLEAN :
         agents_mode' = IF initialized THEN "workers" ELSE "fallback_agents"
    /\ agents_initialized' = TRUE
    /\ CreateContext
    /\ pc' = "load"
    /\ UNCHANGED <<idx, lead_agent, heap, campaign_data, result, save_calls, calls,
                   round_start, convergence_results, decision_writes, decision_input,
                   decision_output, replay, script, first_result, pairvars, wsvars>>

\* The executing run is suspended in an await that gives the event loop the
\* control: it has not started, it awaits an initialize(), a database call
\* (get_product_context, get_customer_context, insert_json_record), a team
\* worker's call that did not finish at once, or the lead worker's call; or it
\* has returned.  Between two of these the run is not interrupted: the loop
\* heads, the convergence check, the fallback decision and Phase 4 contain no
\* await, and the methods of a FallbackAgent never suspend.
AtAwait ==
    \/ pc \in {"start", "initializing", "load", "load_customers", "phase1_suspended",
               "phase2_suspended", "save", "done"}
    \/ pc = "phase3" /\ lead_agent

\* the context kept in one place for both runs: the proposals are not part of
\* what the event loop switches (variant for property C29)
SwitchRunSharedProposals ==
    /\ other_run # None
    /\ other_run.pc # "done"
    /\ AtAwait
    /\ other_run' = Frame
    /\ run_id' = 3 - run_id
    /\ pc' = other_run.pc
    /\ idx' = other_run.idx
    /\ negotiation_round' = other_run.negotiation_round
    /\ agent_proposals' = agent_proposals
    /\ shared_insights' = other_run.shared_insights
    /\ collaboration_log' = other_run.collaboration_log
    /\ lead_decision' = other_run.lead_decision
    /\ campaign_data' = other_run.campaign_data
    /\ result' = other_run.result
    /\ save_calls' = other_run.save_calls
    /\ calls' = other_run.calls
    /\ round_start' = other_run.round_start
    /\ convergence_results' = other_run.convergence_results
    /\ decision_writes' = other_run.decision_writes
    /\ script' = other_run.script
    /\ UNCHANGED <<agents_initialized, agents_mode, lead_agent, heap, decision_input,
                   decision_output, replay, first_result, wsvars>>

\* the executing run is suspended at its await and the event loop resumes the
\* other run, which has not returned yet: the frames and contexts change places
SwitchRun ==
    /\ other_run # None
    /\ other_run.pc # "done"
    /\ AtAwait
    /\ other_run' = Frame
    /\ run_id' = 3 - run_id
    /\ pc' = other_run.pc
    /\ idx' = other_run.idx
    /\ negotiation_round' = other_run.negotiation_round
    /\ agent_proposals' = other_run.agent_proposals
    /\ shared_insights' = other_run.shared_insights
    /\ collaboration_log' = other_run.collaboration_log
    /\ lead_decision' = other_run.lead_decision
    /\ campaign_data' = other_run.campaign_data
    /\ result' = other_run.result
    /\ save_calls' = other_run.save_calls
    /\ calls' = other_run.calls
    /\ round_start' = other_run.round_start
    /\ convergence_results' = other_run.convergence_results
    /\ decision_writes' = other_run.decision_writes
    /\ script' = other_run.script
    /\ UNCHANGED <<agents_initialized, agents_mode, lead_agent, heap, decision_input,
                   decision_output, replay, first_result, wsvars>>

NextPair ==
    \/ InitializeAgentsBegin
    \/ InitializeAgentsEnd
    \/ LoadProductContext
    \/ LoadCustomerContext
    \/ Phase1Analyze
    \/ BeginRound
    \/ Phase2Negotiate
    \/ CheckConvergence
    \/ Phase3Decision
    \/ Phase4Compile
    \/ SaveResults
    \/ SuspendCall
    \/ ResumeCall
    \/ SwitchRun

SpecPair == InitPair /\ [][NextPair]_vars

(***************************************************************************)
(* _make_final_decision called directly on a tuple of its inputs           *)
(***************************************************************************)
MaxRoi == 30

MaxRisk == 30

ScoreSteps == 20

\* overall scores 0.00, 0.05, ..., in 1/10^8
ScoreGrid == {k * 5000000 : k \in 0..ScoreSteps}

Feasibilities ==
    {"feasible", "feasible_with_monitoring", "feasible_with_constraints",
     "requires_restocking", "unknown"}

DecisionInputs ==
    [roi : (-1)..MaxRoi, overall_score : ScoreGrid,
     campaign_feasibility : Feasibilities, risk_score : 0..MaxRisk]

InitDecision ==
    /\ ManagerInit
    /\ decision_input \in DecisionInputs
    /\ decision_output = None
    /\ NotRecording
    /\ SingleRun

Decide ==
    /\ decision_input # None
    /\ decision_output = None
    /\ decision_output' =
           _make_final_decision(decision_input.roi, decision_input.overall_score,
                                decision_input.campaign_feasibility,
                                decision_input.risk_score)
    /\ UNCHANGED <<pc, idx, agents_initialized, agents_mode, lead_agent,
                   negotiation_round, agent_proposals, shared_insights,
                   collaboration_log, lead_decision, heap, campaign_data, result,
                   save_calls, calls, round_start, convergence_results,
                   decision_writes, decision_input, replay, script, first_result, pairvars, wsvars>>

NextDecision == Decide

SpecDecision == InitDecision /\ [][NextDecision]_vars

(***************************************************************************)
(* make_executive_decision called directly on the outputs of three team    *)
(* workers with fixed answers: finance ROI 30 and risk 0.15, creative       *)
(* confidence 0.85 with a target audience, inventory feasible / 0.9 / good. *)
(* The projected revenue of the finance output varies.                      *)
(***************************************************************************)
MaxRevenueSteps == 80

\* projected revenues 0, 1250, 2500, ... dollars
RevenueGrid == {k * 1250 : k \in 0..MaxRevenueSteps}

ScenarioFinance ==
    {[agent |-> "Enhanced Finance Agent", projected_roi |-> 30, risk_score |-> 15]}
    \cup {[agent |-> "Enhanced Finance Agent", projected_roi |-> 30, risk_score |-> 15,
           projected_revenue |-> revenue] : revenue \in RevenueGrid}

ScenarioCreative ==
    {[agent |-> "Enhanced Creative Agent", confidence_level |-> 85,
      target_audience |-> audience] :
        audience \in {"Tech-savvy professionals", "Broad consumer market"}}

ScenarioInventory ==
    {[agent |-> "Enhanced Inventory Agent", campaign_feasibility |-> "feasible",
      confidence_level |-> 90, stock_status |-> "good"]}

ExecutiveInputs ==
    [Creative : ScenarioCreative, Finance : ScenarioFinance, Inventory : ScenarioInventory]

InitExecutive ==
    /\ ManagerInit
    /\ decision_input \in ExecutiveInputs
    /\ decision_output = None
    /\ NotRecording
    /\ SingleRun

\* make_executive_decision(query, product, agent_outputs, context): the dict it
\* returns, with the metrics, the analysis and the decision_result that its
\* scoring functions give on agent_outputs; ai_ok is whether
\* gemini_client.generate_response returns
ExecutiveCall ==
    /\ decision_input # None
    /\ decision_output = None
    /\ \E ai_ok \in BOOLEAN, tie_up \in BOOLEAN :
         LET metrics0 == _extract_key_metrics(decision_input)
             analysis == _perform_executive_analysis(metrics0)
             metrics == MetricsAfterAnalysis(metrics0, tie_up)
         IN  decision_output' =
                 [ai_ok |-> ai_ok,
                  metrics |-> metrics,
                  analysis |-> analysis,
                  decision_result |->
                      _make_final_decision(metrics.roi, analysis.overall_viability_score,
                                           metrics.campaign_feasibility,
                                           metrics.risk_score),
                  returned |-> make_executive_decision(decision_input, ai_ok, tie_up)]
    /\ UNCHANGED <<pc, idx, agents_initialized, agents_mode, lead_agent,
                   negotiation_round, agent_proposals, shared_insights,
                   collaboration_log, lead_decision, heap, campaign_data, result,
                   save_calls, calls, round_start, convergence_results,
                   decision_writes, decision_input, replay, script, first_result, pairvars, wsvars>>

NextExecutive == ExecutiveCall

SpecExecutive == InitExecutive /\ [][NextExecutive]_vars

(***************************************************************************)
(* make_executive_decision called directly on team proposals whose          *)
(* confidence values lie in [0, 1] and whose ROI, projected revenue and     *)
(* risk score are any numbers: negative, inside and beyond the references   *)
(***************************************************************************)
\* ROI in percent, revenue in dollars, risk score and confidences in hundredths
RangeFinance ==
    [agent : {"Enhanced Finance Agent"},
     projected_roi : {-10, 0, 25, 50, 80},
     projected_revenue : {-5000, 0, 50000, 100000, 250000},
     risk_score : {-50, 0, 20, 100, 150}]

RangeCreative ==
    [agent : {"Enhanced Creative Agent"}, confidence_level : {0, 85, 100}]
    \cup [agent : {"Enhanced Creative Agent"}, confidence_level : {0, 85, 100},
          target_audience : {"Tech-savvy professionals"}]

RangeInventory ==
    [agent : {"Enhanced Inventory Agent"},
     campaign_feasibility : {"feasible", "requires_restocking", "unknown"},
     confidence_level : {0, 90, 100},
     stock_status : {"good", "limited"}]

RangeInputs == [Creative : RangeCreative, Finance : RangeFinance, Inventory : RangeInventory]

InitRange ==
    /\ ManagerInit
    /\ decision_input \in RangeInputs
    /\ decision_output = None
    /\ NotRecording
    /\ SingleRun

SpecRange == InitRange /\ [][NextExecutive]_vars

(***************************************************************************)
(* _check_team_convergence called directly on a context                    *)
(***************************************************************************)
\* the shapes of a stored proposal that the check distinguishes: not a dict, a
\* dict with a confidence of 0.0, with a positive confidence, without the field
ProposalShapes ==
    {None,
     [agent |-> "worker", confidence_level |-> 0],
     [agent |-> "worker", confidence_level |-> 85],
     [agent |-> "worker", reasoning |-> "no confidence reported"]}

\* a context whose agent_proposals holds entries for some of the team workers
InitConvergence ==
    /\ pc = "convergence_call"
    /\ idx = 1
    /\ agents_initialized = FALSE
    /\ agents_mode = "none"
    /\ lead_agent = FALSE
    /\ negotiation_round = 0
    /\ \E present \in SUBSET TeamNames, shape \in [1..3 -> ProposalShapes] :
         /\ heap = shape
         /\ agent_proposals =
                [a \in present |->
                    CHOOSE i \in 1..3 : team_agent_names[i] = a]
    /\ shared_insights = EmptyDict
    /\ collaboration_log = <<>>
    /\ lead_decision = 0
    /\ campaign_data \in [query : Queries, product : Products]
    /\ result = None
    /\ save_calls = 0
    /\ calls = <<>>
    /\ round_start = <<>>
    /\ convergence_results = <<>>
    /\ decision_writes = 0
    /\ decision_input = None
    /\ decision_output = None
    /\ NotRecording
    /\ SingleRun

\* self._check_team_convergence(context)
ConvergenceCall ==
    /\ pc = "convergence_call"
    /\ convergence_results' =
           Append(convergence_results, _check_team_convergence(CurrentProposals))
    /\ pc' = "convergence_returned"
    /\ UNCHANGED <<idx, agents_initialized, agents_mode, lead_agent, negotiation_round,
                   agent_proposals, shared_insights, collaboration_log, lead_decision,
                   heap, campaign_data, result, save_calls, calls, round_start,
                   decision_writes, decision_input, decision_output,
                   replay, script, first_result, pairvars, wsvars>>

NextConvergence == ConvergenceCall

SpecConvergence == InitConvergence /\ [][NextConvergence]_vars

(***************************************************************************)
(* ConnectionManager (main.py): the websocket connections that receive the  *)
(* progress events, and the calls of broadcast.  A websocket is modelled by *)
(* its number.  The tasks of the event loop interleave at the awaits:       *)
(* a broadcast is suspended in send_json, a websocket endpoint in           *)
(* receive_text or in the broadcast it called.  broadcast takes no lock, so *)
(* a second call starts while the first is suspended, and the two iterate   *)
(* over the same list.                                                      *)
(***************************************************************************)
\* the websockets that may connect
MaxConnections == 3

Connections == 1..MaxConnections

\* the calls of broadcast that may be in flight together
MaxBroadcasts == 2

Broadcasts == 1..MaxBroadcasts

\* the caller of a broadcast that is not a websocket endpoint: one of the
\* campaign endpoints, which report the progress of a run
CampaignEndpoint == 0

\* list.remove(x) on a list that holds x: the first occurrence goes
RECURSIVE ListRemove(_, _)
ListRemove(list, x) ==
    IF list = <<>> THEN <<>>
    ELSE IF Head(list) = x THEN Tail(list)
    ELSE <<Head(list)>> \o ListRemove(Tail(list), x)

\* x in list
InList(list, x) == \E i \in DOMAIN list : list[i] = x

\* a call of broadcast that has not happened
IdleBroadcast == [pc |-> "idle", i |-> 0, connection |-> 0, caller |-> CampaignEndpoint]

\* the manager object of the module has no connection; no task runs; the
\* collaboration engine is not running
InitBroadcast ==
    /\ ManagerInit
    /\ decision_input = None
    /\ decision_output = None
    /\ NotRecording
    /\ other_run = None
    /\ run_id = 1
    /\ active_connections = <<>>
    /\ bcast = [b \in Broadcasts |-> IdleBroadcast]
    /\ ws_log = [start |-> [b \in Broadcasts |-> {}],
                 received |-> [b \in Broadcasts |-> {}],
                 failed |-> [b \in Broadcasts |-> {}],
                 closed |-> {}, connected |-> {}, died |-> {}]

\* the call b of broadcast has been made and has not returned or raised
InFlight(b) == bcast[b].pc \in {"loop", "send"}

\* a broadcast is executing between two of its awaits; every other task waits
BroadcastRunning == \E b \in Broadcasts : bcast[b].pc = "loop"

\* the endpoint of websocket c is suspended in receive_text: it has connected,
\* it has not ended, and it is not inside a broadcast that it called
EndpointReceiving(c) ==
    /\ c \in ws_log.connected
    /\ c \notin ws_log.closed \cup ws_log.died
    /\ \A b \in Broadcasts : InFlight(b) => bcast[b].caller # c

\* websocket_endpoint up to its first await of receive_text:
\* await manager.connect(websocket) accepts the websocket and appends it
Connect(c) ==
    /\ ~BroadcastRunning
    /\ c \notin ws_log.connected
    /\ active_connections' = Append(active_connections, c)
    /\ ws_log' = [ws_log EXCEPT !.connected = @ \cup {c}]
    /\ UNCHANGED bcast

\* await manager.broadcast(message) is called, by a campaign endpoint or by the
\* endpoint of a websocket that received a text; other broadcasts may be
\* suspended in send_json.  The loop starts with an iterator at the head of
\* self.active_connections.  b is the first call that is not in flight.
BroadcastCall(b, caller) ==
    /\ ~BroadcastRunning
    /\ ~InFlight(b)
    /\ \A other \in 1..(b - 1) : InFlight(other)
    /\ caller = CampaignEndpoint \/ EndpointReceiving(caller)
    /\ bcast' = [bcast EXCEPT ![b] = [pc |-> "loop", i |-> 0, connection |-> 0,
                                      caller |-> caller]]
    /\ ws_log' = [ws_log EXCEPT
                     !.start[b] = {active_connections[k] : k \in DOMAIN active_connections},
                     !.received[b] = {},
                     !.failed[b] = {}]
    /\ UNCHANGED active_connections

\* for connection in self.active_connections: the list iterator hands out the
\* item at its index in the list as the list is now, and moves on by one; when
\* the index is past the end the loop ends and broadcast returns.  The body then
\* awaits connection.send_json(message).
BroadcastNext(b) ==
    /\ bcast[b].pc = "loop"
    /\ IF bcast[b].i < Len(active_connections)
       THEN bcast' = [bcast EXCEPT ![b].pc = "send", ![b].i = @ + 1,
                                   ![b].connection = active_connections[bcast[b].i + 1]]
       ELSE bcast' = [bcast EXCEPT ![b].pc = "returned"]
    /\ UNCHANGED <<active_connections, ws_log>>

\* send_json returns: the connection has the message
SendReturns(b) ==
    /\ ~BroadcastRunning
    /\ bcast[b].pc = "send"
    /\ ws_log' = [ws_log EXCEPT !.received[b] = @ \cup {bcast[b].connection}]
    /\ bcast' = [bcast EXCEPT ![b].pc = "loop"]
    /\ UNCHANGED active_connections

\* send_json raises: the bare except runs self.disconnect(connection), which is
\* self.active_connections.remove(connection); list.remove raises ValueError
\* when the item is not in the list, and nothing catches it inside broadcast.
\* A websocket endpoint that called the broadcast catches WebSocketDisconnect
\* only: its task ends with the error and its websocket stays in the list.
SendRaises(b) ==
    /\ ~BroadcastRunning
    /\ bcast[b].pc = "send"
    /\ IF InList(active_connections, bcast[b].connection)
       THEN /\ active_connections' = ListRemove(active_connections, bcast[b].connection)
            /\ bcast' = [bcast EXCEPT ![b].pc = "loop"]
            /\ ws_log' = [ws_log EXCEPT !.failed[b] = @ \cup {bcast[b].connection}]
       ELSE /\ bcast' = [bcast EXCEPT ![b].pc = "raised"]
            /\ ws_log' = [ws_log EXCEPT
                             !.failed[b] = @ \cup {bcast[b].connection},
                             !.died = IF bcast[b].caller = CampaignEndpoint THEN @
                                      ELSE @ \cup {bcast[b].caller}]
            /\ UNCHANGED active_connections

\* websocket_endpoint of c: receive_text raises WebSocketDisconnect and the
\* handler runs manager.disconnect(websocket).  When the websocket is no longer
\* in the list, list.remove raises in the endpoint's task.
EndpointDisconnect(c) ==
    /\ ~BroadcastRunning
    /\ EndpointReceiving(c)
    /\ active_connections' =
           IF InList(active_connections, c)
           THEN ListRemove(active_connections, c)
           ELSE active_connections
    /\ ws_log' = [ws_log EXCEPT !.closed = @ \cup {c}]
    /\ UNCHANGED bcast

\* everything of the collaboration engine
enginevars ==
    <<pc, idx, agents_initialized, agents_mode, lead_agent, negotiation_round,
      agent_proposals, shared_insights, collaboration_log, lead_decision, heap,
      campaign_data, result, save_calls, calls, round_start, convergence_results,
      decision_writes, decision_input, decision_output, replay, script,
      first_result, pairvars>>

NextBroadcast ==
    \/ \E c \in Connections : Connect(c) /\ UNCHANGED enginevars
    \/ \E b \in Broadcasts, caller \in Connections \cup {CampaignEndpoint} :
           BroadcastCall(b, caller) /\ UNCHANGED enginevars
    \/ \E b \in Broadcasts : BroadcastNext(b) /\ UNCHANGED enginevars
    \/ \E b \in Broadcasts : SendReturns(b) /\ UNCHANGED enginevars
    \/ \E b \in Broadcasts : SendRaises(b) /\ UNCHANGED enginevars
    \/ \E c \in Connections : EndpointDisconnect(c) /\ UNCHANGED enginevars

SpecBroadcast == InitBroadcast /\ [][NextBroadcast]_vars

ResultSlots == {"Creative", "Finance", "Inventory", "Lead"}

SlotOf(agent_name) ==
    CASE agent_name = "creative" -> "Creative"
      [] agent_name = "finance" -> "Finance"
      [] agent_name = "inventory" -> "Inventory"
      [] OTHER -> "Lead"

\* the calls of one kind made so far
CallsOf(op) == {i \in DOMAIN calls : calls[i].op = op}

\* the team workers whose analysis call raised
AnalyzeRaised == {calls[i].agent : i \in {j \in CallsOf("analyze") : calls[j].outcome = "raised"}}

\* the team workers with a negotiation call that raised
NegotiateRaised ==
    {calls[i].agent : i \in {j \in CallsOf("negotiate") : calls[j].outcome = "raised"}}

\* C1: whatever the context loader and the workers do (return or raise), the run
\* does not stop before it returns, and the Result it returns has the Creative,
\* Finance, Inventory and Lead slots all populated (a non-empty dict in each).
C1_RunReturnsCompleteResult ==
    /\ pc # "done" => ENABLED Next
    /\ pc = "done" =>
          /\ IsDict(result)
          /\ \A slot \in ResultSlots :
                /\ slot \in DOMAIN result
                /\ IsDict(result[slot])
                /\ result[slot] # EmptyDict

\* the decisions Phase 3 can store for the team proposals of the context
DecisionsFromContext ==
    LET agent_outputs == [Creative |-> TeamProposal("creative"),
                          Finance |-> TeamProposal("finance"),
                          Inventory |-> TeamProposal("inventory")]
    IN  {make_executive_decision(agent_outputs, ai_ok, tie_up) :
             ai_ok \in BOOLEAN, tie_up \in BOOLEAN}
        \cup {_fallback_executive_decision(TeamProposal("creative"),
                                           TeamProposal("finance"),
                                           TeamProposal("inventory"))}

\* the lead worker's call returned, and what it returned is no Decision: None
\* or an empty dict
LeadReturnedNothing ==
    /\ lead_decision # 0
    /\ heap[lead_decision] \in {None, EmptyDict}

\* the case of C2 for worker a: its analysis raised, the two others returned a
\* proposal dict, no negotiation call of the two others raised, and a lead
\* Decision was made (by the lead worker or by the fallback decision function)
OnlyAnalysisFailed(a) ==
    /\ agents_mode = "workers"
    /\ AnalyzeRaised = {a}
    /\ \A b \in TeamNames \ {a} : IsDict(round_start[1][b]) /\ b \notin NegotiateRaised
    /\ ~LeadReturnedNothing

\* C2: when exactly one team worker's analysis raises, the run still returns; the
\* failing worker's slot of the Result holds its fallback proposal with confidence
\* 0.6, the two other slots hold the two other workers' own proposals, and the Lead
\* slot holds a decision computed from these three proposals.
C2_SingleAnalysisFailure ==
    \A a \in TeamNames :
        (pc = "done" /\ OnlyAnalysisFailed(a)) =>
            /\ IsDict(result[SlotOf(a)])
            /\ Get(result[SlotOf(a)], "confidence_level", -1) = 60
            /\ Get(result[SlotOf(a)], "agent", "")
                   = _create_fallback_proposal(a, shared_insights, campaign_data).agent
            /\ \A b \in TeamNames \ {a} :
                  /\ \E i \in CallsOf("analyze") :
                        calls[i].agent = b /\ calls[i].outcome = "returned"
                  /\ result[SlotOf(b)] = CurrentProposals[b]
                  /\ Get(result[SlotOf(b)], "agent", "") = Get(round_start[1][b], "agent", "")
            /\ lead_decision # 0
            /\ result.Lead = heap[lead_decision]
            /\ result.Lead \in DecisionsFromContext

\* the finance worker's analysis raised, the others' did not, and the run returned
\* a decision made by the lead worker
C2_Witness ==
    /\ pc = "done"
    /\ OnlyAnalysisFailed("finance")
    /\ result.Finance.confidence_level = 60
    /\ result.Lead.agent = "Enhanced Lead Agent"

\* C3: every negotiation call is handed the peers' proposals as they stood when
\* its round began (the end of the previous round, or of Phase 1 for round 1),
\* never a proposal a peer wrote earlier in the same round.
C3_NegotiateReadsRoundSnapshot ==
    \A i \in CallsOf("negotiate") :
        calls[i].others =
            get_other_agent_proposals(round_start[calls[i].round], calls[i].agent)

\* round r has applied its three updates
RoundComplete(r) ==
    r < negotiation_round \/ pc \notin {"phase2", "phase2_suspended", "phase2_resumed"}

\* the entry of worker a once round r is complete
ProposalAfterRound(r, a) ==
    IF Len(round_start) > r THEN round_start[r + 1][a] ELSE CurrentProposals[a]

\* C4: when a worker's negotiation call raises in a round, the worker's entry in
\* the proposals after the round is identical to its entry before the round.
C4_NegotiationErrorKeepsProposal ==
    \A i \in CallsOf("negotiate") :
        (calls[i].outcome = "raised" /\ RoundComplete(calls[i].round)) =>
            ProposalAfterRound(calls[i].round, calls[i].agent)
                = round_start[calls[i].round][calls[i].agent]

\* the rows of the threshold table, in priority order
TableRows ==
    <<[label |-> "APPROVED", confidence |-> 90, priority |-> "HIGH"],
      [label |-> "APPROVED", confidence |-> 80, priority |-> "MEDIUM"],
      [label |-> "APPROVED_CONDITIONAL", confidence |-> 70, priority |-> "MEDIUM"],
      [label |-> "REQUIRES_REVISION", confidence |-> 60, priority |-> "LOW"],
      [label |-> "REJECTED", confidence |-> 80, priority |-> "LOW"]>>

\* the condition of row i on the tuple t
RowCondition(i, t) ==
    CASE i = 1 -> t.roi >= 25 /\ t.overall_score >= 80000000 /\ t.risk_score <= 20
      [] i = 2 -> /\ t.roi >= 20 /\ t.overall_score >= 70000000
                  /\ t.campaign_feasibility \in {"feasible", "feasible_with_monitoring"}
      [] i = 3 -> t.roi >= 16 /\ t.overall_score >= 60000000
      [] i = 4 -> t.roi >= 12
      [] OTHER -> TRUE

\* row i applies: its condition holds and no earlier row's does
RowApplies(i, t) == RowCondition(i, t) /\ \A j \in 1..(i - 1) : ~RowCondition(j, t)

\* C5: on every tuple the decision function returns the label, confidence and
\* priority of the first row of the threshold table whose condition holds, and
\* exactly one row applies to the tuple.
C5_DecisionFollowsThresholdTable ==
    decision_output # None =>
        /\ Cardinality({i \in DOMAIN TableRows : RowApplies(i, decision_input)}) = 1
        /\ \A i \in DOMAIN TableRows :
              RowApplies(i, decision_input) =>
                  /\ decision_output.decision = TableRows[i].label
                  /\ decision_output.confidence = TableRows[i].confidence
                  /\ decision_output.priority = TableRows[i].priority

\* a tuple on which the conditions of rows 2, 3 and 4 all hold was decided by row 2
C5_Witness ==
    /\ decision_output # None
    /\ ~RowCondition(1, decision_input)
    /\ RowCondition(2, decision_input)
    /\ RowCondition(3, decision_input)
    /\ decision_output.decision = "APPROVED"
    /\ decision_output.confidence = 80

\* Phase 3 did not get its decision from the lead worker
LeadFailedOrUnavailable ==
    ~lead_agent \/ \E i \in CallsOf("decide") : calls[i].outcome = "raised"

\* C6: when the lead worker raises or is unavailable, the decision stored in
\* Phase 3 has the label, confidence and priority that the scoring and the
\* threshold table assign to the team proposals of the context.
C6_FallbackDecisionFollowsTable ==
    (lead_decision # 0 /\ LeadFailedOrUnavailable) =>
        LET m == _extract_key_metrics([Creative |-> TeamProposal("creative"),
                                       Finance |-> TeamProposal("finance"),
                                       Inventory |-> TeamProposal("inventory")])
            t == _make_final_decision(m.roi, OverallScore(m), m.campaign_feasibility,
                                      m.risk_score)
            d == heap[lead_decision]
        IN  /\ d.executive_decision = t.decision
            /\ d.decision_confidence = t.confidence
            /\ d.strategic_priority = t.priority

\* C7: every decision that appears in a Result or in the context carries a
\* non-empty rationale.
C7_EveryDecisionHasRationale ==
    /\ lead_decision # 0 => Get(heap[lead_decision], "decision_rationale", "") # ""
    /\ pc = "done" => Get(result.Lead, "decision_rationale", "") # ""

\* C8: the round counter starts at 0, stays within 0..max_rounds, never
\* decreases and changes only at the head of a Phase 2 round.
C8_RoundCounterBounded ==
    /\ negotiation_round = 0
    /\ [](negotiation_round \in 0..max_rounds)
    /\ [][/\ negotiation_round' >= negotiation_round
          /\ negotiation_round' # negotiation_round =>
                 pc = "round_begin" /\ pc' = "phase2"]_vars

\* a run that went through both rounds has returned
C8_Witness ==
    /\ pc = "done"
    /\ negotiation_round = max_rounds
    /\ Len(convergence_results) = max_rounds

\* C9: once the convergence check has returned true after round 1, the round
\* counter is 1 and stays 1, and no negotiation call of round 2 is made.
C9_ConvergenceSkipsRoundTwo ==
    (Len(convergence_results) >= 1 /\ convergence_results[1]) =>
        /\ negotiation_round = 1
        /\ Len(round_start) = 1
        /\ \A i \in CallsOf("negotiate") : calls[i].round = 1

\* a run whose round 1 converged has returned after three negotiation calls
C9_Witness ==
    /\ pc = "done"
    /\ convergence_results = <<TRUE>>
    /\ negotiation_round = 1
    /\ Cardinality(CallsOf("negotiate")) = 3

\* C10: the decision slot of the context is written exactly once in every run,
\* in Phase 3, and not overwritten: no write before Phase 3 ends, one write in
\* every state after it.
C10_DecisionWrittenExactlyOnce ==
    /\ decision_writes <= 1
    /\ (decision_writes = 1) <=> (lead_decision # 0)
    /\ pc \in {"start", "load", "load_customers", "phase1", "phase1_suspended",
              "phase1_resumed", "round_begin", "phase2", "phase2_suspended",
              "phase2_resumed", "converge", "phase3"}
          => decision_writes = 0
    /\ pc \in {"phase4", "save", "done"} => decision_writes = 1

\* C11: the convergence check returns true only if each of the three team
\* workers has an entry in the proposals and each entry contains a confidence
\* field; a confidence of 0.0 that is present counts, a missing field does not.
C11_ConvergenceNeedsConfidenceFields ==
    \A i \in DOMAIN convergence_results :
        convergence_results[i] =>
            \A a \in TeamNames :
                /\ a \in DOMAIN agent_proposals
                /\ "confidence_level" \in DOMAIN CurrentProposals[a]

\* a team worker's Analyze or Negotiate call is in flight and has not returned
CallSuspended == pc \in {"phase1_suspended", "phase2_suspended"}

\* C12: if a team worker's Analyze or Negotiate call never completes, the run
\* still goes on: it eventually returns a Result (after Phase 3 and Phase 4, the
\* worker without a proposal having been given its fallback proposal).
C12_HungCallDoesNotStopRun ==
    (<>[]CallSuspended) => <>(pc = "done" /\ IsDict(result))

\* worker b's proposal of round r (0: Phase 1) has been stored
ProposalStored(b, r) ==
    \E i \in DOMAIN collaboration_log :
        /\ collaboration_log[i].agent = b
        /\ collaboration_log[i].round = r
        /\ collaboration_log[i].action = "proposal_updated"

\* C20: in Phase 1 and in each negotiation round, a team worker whose call stays
\* suspended does not keep the calls of the two other team workers from being
\* made and their proposals of that phase or round from being stored.
C20_SuspendedCallDoesNotBlockSiblings ==
    \A i \in DOMAIN team_agent_names, r \in 0..max_rounds :
        (<>[](CallSuspended /\ idx = i /\ negotiation_round = r))
            => <>(\A b \in TeamNames \ {team_agent_names[i]} : ProposalStored(b, r))

\* the analysis calls of all three team workers raised, and a lead Decision was
\* made (by the lead worker or by the fallback decision function)
AllAnalysesRaised ==
    /\ agents_mode = "workers"
    /\ AnalyzeRaised = TeamNames
    /\ ~LeadReturnedNothing

\* C13: when the analysis of all three team workers raises, the Result holds
\* three fallback proposals with confidence 0.6 each and a lead decision
\* APPROVED_CONDITIONAL with a non-empty rationale, whether the lead worker or
\* the fallback decision function produced the decision.
C13_AllAnalysesFail ==
    (pc = "done" /\ AllAnalysesRaised) =>
        /\ \A a \in TeamNames :
              /\ IsDict(result[SlotOf(a)])
              /\ Get(result[SlotOf(a)], "confidence_level", -1) = 60
              /\ Get(result[SlotOf(a)], "agent", "")
                     = _create_fallback_proposal(a, shared_insights, campaign_data).agent
        /\ Get(result.Lead, "executive_decision", "") = "APPROVED_CONDITIONAL"
        /\ Get(result.Lead, "decision_rationale", "") # ""
        /\ result.Executive_Decision = "APPROVED_CONDITIONAL"

\* all three analyses raised and the lead worker's threshold table produced the
\* decision of the Result
C13_Witness ==
    /\ pc = "done"
    /\ AllAnalysesRaised
    /\ result.Lead.agent = "Enhanced Lead Agent"
    /\ result.Lead.executive_decision = "APPROVED_CONDITIONAL"
    /\ result.Creative.confidence_level = 60

\* the revenue of the finance output of a direct call is missing or not positive
ScenarioRevenueAbsent == Get(decision_input.Finance, "projected_revenue", 0) <= 0

\* C14 as stated: in the scenario (finance ROI 30 and risk 0.15, creative
\* confidence 0.85 with a target audience, inventory feasible / 0.9 / good), for
\* any projected revenue the overall viability score is at least 0.8 and the
\* decision computed is APPROVED with priority HIGH and confidence 0.90.
C14_ScenarioApprovedForAnyRevenue ==
    decision_output # None =>
        /\ decision_output.metrics.overall_viability_score >= 800
        /\ decision_output.analysis.overall_viability_score >= 80000000
        /\ decision_output.decision_result.decision = "APPROVED"
        /\ decision_output.decision_result.priority = "HIGH"
        /\ decision_output.decision_result.confidence = 90

\* C14, amended: in the scenario the overall score is 0.7505 + 0.12 * min(1,
\* revenue / 100000) (0.8105 when the revenue is missing or not positive).  With
\* a revenue that is missing, not positive, or at least 41250 the score is at
\* least 0.8 and the decision computed is APPROVED / HIGH / 0.90; with a revenue
\* above 0 and below 41250 the score is below 0.8 and the decision computed is
\* APPROVED / MEDIUM / 0.80.  The dict returned carries the computed decision
\* when text generation succeeds.
C14_ScenarioApprovedByRevenue ==
    decision_output # None =>
        LET revenue == Get(decision_input.Finance, "projected_revenue", 0)
            d == decision_output.decision_result
        IN  /\ (ScenarioRevenueAbsent \/ revenue >= 41250) =>
                  /\ decision_output.analysis.overall_viability_score >= 80000000
                  /\ decision_output.metrics.overall_viability_score >= 800
                  /\ d.decision = "APPROVED" /\ d.priority = "HIGH" /\ d.confidence = 90
            /\ (revenue > 0 /\ revenue < 41250) =>
                  /\ decision_output.analysis.overall_viability_score < 80000000
                  /\ decision_output.analysis.overall_viability_score >= 70000000
                  /\ d.decision = "APPROVED" /\ d.priority = "MEDIUM" /\ d.confidence = 80
            /\ decision_output.ai_ok =>
                  /\ decision_output.returned.executive_decision = d.decision
                  /\ decision_output.returned.strategic_priority = d.priority
                  /\ decision_output.returned.decision_confidence = d.confidence

\* the scenario with a projected revenue of exactly 41250 was decided
\* APPROVED / HIGH by the lead worker
C14_Witness ==
    /\ decision_output # None
    /\ Get(decision_input.Finance, "projected_revenue", 0) = 41250
    /\ decision_output.ai_ok
    /\ decision_output.returned.executive_decision = "APPROVED"
    /\ decision_output.returned.strategic_priority = "HIGH"
    /\ decision_output.returned.decision_confidence = 90

\* C16: a failure of text generation inside make_executive_decision leaves the
\* decision untouched: the dict returned has the label, confidence and priority
\* that it has when text generation succeeds on the same worker outputs.
C16_TextFailureKeepsDecision ==
    decision_output # None =>
        \E tie_up \in BOOLEAN :
            LET with_text == make_executive_decision(decision_input, TRUE, tie_up)
                d == decision_output.returned
            IN  /\ d.executive_decision = with_text.executive_decision
                /\ d.decision_confidence = with_text.decision_confidence
                /\ d.strategic_priority = with_text.strategic_priority

\* C15: a second run on the same manager, with the same subject and workers that
\* behave as they did in the first run, is not stopped in Phases 1 and 2 by what
\* the workers do, and returns a Result with the same decision label, confidence,
\* priority and scores as the first.
C15_SecondRunSameDecision ==
    /\ pc \notin {"done", "phase3"} => ENABLED RunStep
    /\ (first_result # None /\ pc = "done") =>
          /\ result.Executive_Decision = first_result.Executive_Decision
          /\ result.Lead = first_result.Lead
          /\ Get(result, "Strategic_Priority", "") = Get(first_result, "Strategic_Priority", "")
          /\ Get(result, "success_probability", -1)
                 = Get(first_result, "success_probability", -1)

\* both runs have returned; the decision of both is the lead worker's APPROVED
C15_Witness ==
    /\ first_result # None
    /\ pc = "done"
    /\ agents_mode = "workers"
    /\ Get(first_result.Lead, "agent", "") = "Enhanced Lead Agent"
    /\ Get(first_result.Lead, "executive_decision", "") = "APPROVED"
    /\ Get(result.Lead, "executive_decision", "") = "APPROVED"

\* loading the shared insights failed: the context holds the static default set
LoadFailed ==
    /\ pc \notin {"start", "load", "load_customers"}
    /\ shared_insights = DefaultInsights(campaign_data.product)

\* C17: a run whose load of the shared insights failed works on the static
\* default insight set and returns a Result compiled by Phase 4, not the
\* whole-run fallback response.
C17_LoadFailureStillCompiles ==
    (LoadFailed /\ pc = "done") =>
        /\ IsDict(result)
        /\ result # _fallback_response(campaign_data.query, campaign_data.product)

\* what Phase 4 returns on the context as it is: the compiled Result, or Phase 4's
\* own fallback result when a team proposal is not a dict
Phase4Result ==
    _phase_4_result_compilation(
        campaign_data, TeamProposal("creative"), TeamProposal("finance"),
        TeamProposal("inventory"),
        LeadDecisionOrEmpty(lead_decision, heap),
        negotiation_round, Len(collaboration_log))

\* C18: Save is called once in a run that completes Phase 4 and never in another
\* run, never before Phase 4 has returned; it is given the Result of Phase 4, and
\* the run returns that Result unchanged whether Save returned or raised.
C18_SaveOnceAfterCompile ==
    /\ save_calls = Cardinality(CallsOf("save"))
    /\ save_calls <= 1
    /\ pc # "done" => save_calls = 0
    /\ (pc = "done" /\ lead_decision # 0) => save_calls = 1
    /\ (pc = "done" /\ lead_decision = 0) => save_calls = 0
    /\ \A i \in CallsOf("save") :
          /\ calls[i].current = Phase4Result
          /\ result = calls[i].current

\* a run has returned the compiled Result after a Save that raised
C18_Witness ==
    /\ pc = "done"
    /\ result.authority_structure = "LEAD_AGENT_EXECUTIVE_AUTHORITY"
    /\ \E i \in CallsOf("save") : calls[i].outcome = "raised"

\* the phase the run is in: 0 agent set-up and ContextLoad, 1 IndependentAnalysis,
\* 2 Negotiation, 3 ExecutiveDecision, 4 Compile, 5 after Compile
PhaseRank(p) ==
    CASE p \in {"start", "load", "load_customers"} -> 0
      [] p \in {"phase1", "phase1_suspended", "phase1_resumed"} -> 1
      [] p \in {"round_begin", "phase2", "phase2_suspended", "phase2_resumed",
                "converge"} -> 2
      [] p = "phase3" -> 3
      [] p = "phase4" -> 4
      [] OTHER -> 5

\* the phase that wrote an entry of the collaboration log
EntryPhase(e) ==
    IF e.agent = "lead" THEN 3
    ELSE IF e.round = 0 THEN 1
    ELSE 2

\* the log entries written by a phase
EntriesOf(phase) ==
    {i \in DOMAIN collaboration_log : EntryPhase(collaboration_log[i]) = phase}

\* the writes made so far respect the order of the phases
WritesInPhaseOrder ==
    /\ \A i, j \in DOMAIN collaboration_log :
          i < j => EntryPhase(collaboration_log[i]) <= EntryPhase(collaboration_log[j])
    /\ \A i \in DOMAIN collaboration_log :
          EntryPhase(collaboration_log[i]) <= PhaseRank(pc)
    /\ PhaseRank(pc) >= 1 => shared_insights # EmptyDict
    /\ (PhaseRank(pc) >= 2 \/ negotiation_round > 0) =>
          /\ TeamNames \subseteq DOMAIN agent_proposals
          /\ Cardinality(EntriesOf(1)) = Len(team_agent_names)
    /\ negotiation_round > 0 => PhaseRank(pc) >= 2
    /\ (lead_decision # 0 \/ "lead" \in DOMAIN agent_proposals) =>
          /\ PhaseRank(pc) >= 4
          /\ Cardinality(EntriesOf(2)) = Len(team_agent_names) * negotiation_round
          /\ Len(convergence_results) = negotiation_round
    /\ result # None => PhaseRank(pc) = 5

\* C19: within one run the phases follow one another in the order ContextLoad,
\* IndependentAnalysis, Negotiation, ExecutiveDecision, Compile, with no step back
\* to an earlier phase (so each occurs at most once), and no proposal update,
\* round increment or decision of a phase is written before all writes of the
\* phase before it are done.
C19_PhasesInOrder ==
    /\ []WritesInPhaseOrder
    /\ [][PhaseRank(pc') >= PhaseRank(pc)]_vars

\* a run went through all the phases, with two rounds of negotiation, and returned
\* the compiled Result
C19_Witness ==
    /\ pc = "done"
    /\ negotiation_round >= 2
    /\ lead_decision # 0
    /\ result.authority_structure = "LEAD_AGENT_EXECUTIVE_AUTHORITY"

\* the team entries of the collaboration log written in a round that is over (a
\* later round has begun, and round_start holds the proposals as that round left
\* them)
LoggedBeforeRound ==
    {i \in DOMAIN collaboration_log :
        /\ collaboration_log[i].agent \in TeamNames
        /\ collaboration_log[i].round < Len(round_start)}

\* the last entry that a team worker's update_proposal logged in a round
LastEntryOf(agent, round) ==
    LET written == {i \in DOMAIN collaboration_log :
                      /\ collaboration_log[i].agent = agent
                      /\ collaboration_log[i].round = round}
    IN  CHOOSE i \in written : \A j \in written : j <= i

\* C21: a proposal value stored in proposals and recorded as the payload of a log
\* entry is never altered afterwards: the payload of the entry that closed a
\* worker's round is still the value the worker's proposal had when that round
\* ended, whatever later Negotiate calls did.
C21_LoggedProposalsNeverAltered ==
    \A i \in LoggedBeforeRound :
        LET e == collaboration_log[i]
        IN  i = LastEntryOf(e.agent, e.round) =>
                heap[e.details] = round_start[e.round + 1][e.agent]

\* the negotiation calls of the finance worker that returned while the inventory
\* worker's current proposal, as handed over in the peer map, had stock_status
\* 'limited'
FinanceCallsWithLimitedStock ==
    {i \in CallsOf("negotiate") :
        /\ agents_mode = "workers"
        /\ calls[i].agent = "finance"
        /\ calls[i].outcome = "returned"
        /\ IsDict(calls[i].current)
        /\ IsDict(Get(calls[i].others, "inventory", None))
        /\ Get(calls[i].others.inventory, "stock_status", "") = "limited"}

\* C22: in a negotiation round, when the inventory worker's current proposal has
\* stock_status 'limited', the finance worker's negotiated proposal has its
\* approved_budget reduced to 0.8 times the previous value and carries a budget
\* adjustment reason.
C22_LimitedStockReducesBudget ==
    \A i \in FinanceCallsWithLimitedStock :
        RoundComplete(calls[i].round) =>
            LET before == calls[i].current
                after == ProposalAfterRound(calls[i].round, "finance")
            IN  /\ Get(after, "approved_budget", -1)
                       = (Get(before, "approved_budget", 20000) * 8) \div 10
                /\ "budget_adjustment_reason" \in DOMAIN after

\* the position of a team worker in the order in which a round processes them
AgentIndex(agent) == CHOOSE i \in DOMAIN team_agent_names : team_agent_names[i] = agent

\* C25: the peer map passed to a team worker's Negotiate call holds neither the
\* worker's own key nor 'lead'; in Phase 2 it holds exactly the two other team
\* workers' proposals, as they stand in the context at the time of the call.
C25_PeerMapExcludesSelfAndLead ==
    \A i \in CallsOf("negotiate") :
        LET a == calls[i].agent
            r == calls[i].round
        IN  /\ DOMAIN calls[i].others = TeamNames \ {a}
            /\ \A b \in TeamNames \ {a} :
                  calls[i].others[b] =
                      IF AgentIndex(b) < AgentIndex(a)
                      THEN ProposalAfterRound(r, b)
                      ELSE round_start[r][b]

\* the inventory worker has negotiated in round 2 of a run with real workers
C25_Witness ==
    /\ agents_mode = "workers"
    /\ \E i \in CallsOf("negotiate") :
          /\ calls[i].agent = "inventory"
          /\ calls[i].round = 2
          /\ calls[i].outcome = "returned"

\* the run has been through Phase 4
Phase4Done == pc \in {"save", "done"} /\ lead_decision # 0

\* C23: Phase 4 cannot fail and builds the Result from the context alone: the
\* Creative, Finance, Inventory and Lead slots of the Result are the three team
\* entries of proposals and the stored decision, and collaboration_rounds is the
\* round counter.
C23_ResultBuiltFromContext ==
    Phase4Done =>
        /\ \A a \in TeamNames : result[SlotOf(a)] = CurrentProposals[a]
        /\ result.Lead = heap[lead_decision]
        /\ result.collaboration_rounds = negotiation_round

\* C24: for team proposals with confidences in [0, 1] and any numeric ROI,
\* projected revenue and risk score, the financial, creative and operational
\* sub-scores and the overall viability score all lie in [0, 1].
C24_ScoresInUnitInterval ==
    decision_output # None =>
        /\ decision_output.metrics.financial_score \in 0..10000000
        /\ decision_output.metrics.creative_score \in 0..10000000
        /\ decision_output.metrics.operational_score \in 0..10000000
        /\ decision_output.analysis.overall_viability_score \in 0..100000000
        /\ decision_output.metrics.overall_viability_score \in 0..1000

\* C28: with ROI and risk score fixed, a projected revenue that is higher (from 0
\* upwards) never gives a lower financial score.
C28_FinancialScoreMonotoneInRevenue ==
    decision_output # None =>
        LET m == decision_output.metrics
        IN  \A higher \in RevenueGrid :
                higher >= m.revenue =>
                    _calculate_financial_score(m.roi, higher, m.budget, m.risk_score)
                        >= m.financial_score

\* the three team proposals stored by Phase 1 are all dicts
Phase1StoredDicts ==
    /\ Len(round_start) >= 1
    /\ \A a \in TeamNames : IsDict(round_start[1][a])

\* C27: when the three team proposals stored after Phase 1 are dicts, the
\* convergence check at the end of round 1 returns true whatever they contain:
\* the run has exactly one negotiation round, round 2 is never begun, and the
\* Result reports collaboration_rounds = 1.
C27_DictProposalsConvergeInRoundOne ==
    Phase1StoredDicts =>
        /\ negotiation_round = 1
        /\ Len(round_start) = 1
        /\ \A i \in DOMAIN convergence_results : i = 1 /\ convergence_results[i]
        /\ \A i \in CallsOf("negotiate") : calls[i].round = 1
        /\ pc = "done" => result.collaboration_rounds = 1

\* a run of real workers whose Phase 1 proposals were dicts of low confidence has
\* returned after one round
C27_Witness ==
    /\ pc = "done"
    /\ agents_mode = "workers"
    /\ Phase1StoredDicts
    /\ Get(round_start[1].finance, "confidence_level", 0) = 40
    /\ Get(round_start[1].inventory, "confidence_level", 0) = 45
    /\ convergence_results = <<TRUE>>

\* the priority goes with the label: HIGH with APPROVED, MEDIUM with APPROVED or
\* APPROVED_CONDITIONAL, LOW with REQUIRES_REVISION or REJECTED
PriorityConsistent(label, priority) ==
    CASE priority = "HIGH" -> label = "APPROVED"
      [] priority = "MEDIUM" -> label \in {"APPROVED", "APPROVED_CONDITIONAL"}
      [] priority = "LOW" -> label \in {"REQUIRES_REVISION", "REJECTED"}
      [] OTHER -> FALSE

\* the decision stored in Phase 3 came from _fallback_executive_decision
DecidedByFallbackFunction ==
    /\ lead_decision # 0
    /\ LeadFailedOrUnavailable

\* C30: in every Decision produced by the lead worker (its table, its internal
\* fallback) or by the orchestrator's fallback decision function, the priority is
\* consistent with the label.
C30_PriorityConsistentWithLabel ==
    /\ (lead_decision # 0 /\ ~LeadReturnedNothing) =>
          PriorityConsistent(heap[lead_decision].executive_decision,
                             heap[lead_decision].strategic_priority)
    /\ (decision_output # None /\ "priority" \in DOMAIN decision_output) =>
          PriorityConsistent(decision_output.decision, decision_output.priority)
    /\ (decision_output # None /\ "returned" \in DOMAIN decision_output) =>
          /\ PriorityConsistent(decision_output.decision_result.decision,
                                decision_output.decision_result.priority)
          /\ PriorityConsistent(decision_output.returned.executive_decision,
                                decision_output.returned.strategic_priority)

\* the orchestrator's fallback decision function has produced REQUIRES_REVISION
\* with priority LOW
C30_Witness ==
    /\ DecidedByFallbackFunction
    /\ heap[lead_decision].executive_decision = "REQUIRES_REVISION"
    /\ heap[lead_decision].strategic_priority = "LOW"


\* the connections that a finished broadcast owed the message: those in the list
\* when it was called, without those whose send failed in some broadcast and
\* those whose endpoint disconnected
OwedMessage(b) ==
    ws_log.start[b] \ (UNION {ws_log.failed[other] : other \in Broadcasts}
                          \cup ws_log.closed)

\* C26: a failed send never raises out of broadcast, and every other active
\* connection receives the message in that same broadcast, also when an
\* endpoint disconnects a connection while broadcast is suspended
C26_BroadcastReachesEveryOtherConnection ==
    \A b \in Broadcasts :
        /\ bcast[b].pc # "raised"
        /\ bcast[b].pc = "returned" => OwedMessage(b) \subseteq ws_log.received[b]

\* the dict objects a run's context refers to: its proposals, its decision and
\* the payloads of its interaction log
FrameRefs(f) ==
    {f.agent_proposals[a] : a \in DOMAIN f.agent_proposals}
        \cup {f.collaboration_log[i].details : i \in DOMAIN f.collaboration_log}
        \cup ({f.lead_decision} \ {0})

\* the entry of a team worker in a run's proposals, as Phase 3 and Phase 4 read it
FrameProposal(f, agent_name) ==
    IF agent_name \in DOMAIN f.agent_proposals
    THEN heap[f.agent_proposals[agent_name]]
    ELSE EmptyDict

\* what a run returns, computed from its own subject and its own context
FrameResult(f) ==
    IF f.lead_decision = 0
    THEN _fallback_response(f.campaign_data.query, f.campaign_data.product)
    ELSE _phase_4_result_compilation(
             f.campaign_data, FrameProposal(f, "creative"),
             FrameProposal(f, "finance"), FrameProposal(f, "inventory"),
             LeadDecisionOrEmpty(f.lead_decision, heap), f.negotiation_round,
             Len(f.collaboration_log))

\* both runs keep their subject, no dict object is referred to by both contexts,
\* and a run that has its Result has the Result of its own context
RunsIsolated ==
    /\ campaign_data = PairSubject(run_id)
    /\ other_run.campaign_data = PairSubject(3 - run_id)
    /\ FrameRefs(Frame) \cap FrameRefs(other_run) = {}
    /\ \A f \in {Frame, other_run} :
           f.pc \in {"save", "done"} => f.result = FrameResult(f)

\* a step of the executing run leaves the frame, the context and the dict
\* objects of the suspended run as they are; a switch moves the executing run's
\* frame and context to the suspended side unchanged
WritesOwnContextOnly ==
    IF run_id' = run_id
    THEN /\ other_run' = other_run
         /\ \A i \in FrameRefs(other_run) : heap'[i] = heap[i]
    ELSE /\ other_run' = Frame
         /\ heap' = heap

\* C29: two runs interleaved at their awaits on the shared manager are isolated:
\* the proposals, the interaction log, the round counter and the decision of a
\* run are written only by that run, and the Result a run returns is the Result
\* of its own context.
C29_InterleavedRunsIsolated == []RunsIsolated /\ [][WritesOwnContextOnly]_vars

\* both runs have returned a compiled Result, the two differ, and the runs were
\* interleaved: a dict object of one run was created between two of the other
C29_Witness ==
    /\ pc = "done"
    /\ other_run.pc = "done"
    /\ lead_decision # 0
    /\ other_run.lead_decision # 0
    /\ result # other_run.result
    /\ result.query # other_run.result.query
    /\ \E i \in FrameRefs(Frame), j \in FrameRefs(other_run), k \in FrameRefs(Frame) :
           i < j /\ j < k

====
